---- MODULE Spec2Model ----
(***************************************************************************)
(* Model of the page-monitoring pipeline of scripts/: the record store     *)
(* (db.py), the capture run that appends snapshots (capture_and_index.py)  *)
(* and the diff analysis run (analyze_diffs.py: main -> analyze).          *)
(*                                                                         *)
(* The record store lives in a file on Drive (`drive`).  A run downloads   *)
(* it to a local working copy (`db`), mutates the copy with one commit per *)
(* insert, and uploads the copy back after each site.                      *)
(*                                                                         *)
(* Abstractions: SSIM scores are thousandths (0.985 = 985).  The two       *)
(* screenshots of a pair are abstracted to how much they differ (`imgs`,   *)
(* a difference class); the score and the contours found are functions of  *)
(* that class.  Timestamps are ordinals: captured_at is the ordinal of the  *)
(* capture run (`clock`), compared_at the ordinal of the analysis run      *)
(* (`run_no`); the code never compares one kind with the other.  An        *)
(* exception a call can raise is a nondeterministic choice of the step,    *)
(* drawn while `budget` (injected faults left) is positive.                *)
(***************************************************************************)
EXTENDS Integers, Sequences, FiniteSets, TLC

VARIABLES
    drive,           \* the record store file on Drive
    db,              \* ab_tracker.db, the local working copy of a run
    db0,             \* the store as the current run downloaded it
    pc,              \* position of the analysis entry point
    clock,           \* capture runs so far (run_ts of the last one)
    run_no,          \* analysis runs started so far
    now_iso,         \* analyze: now_iso, the run's compared_at
    sites,           \* analyze: sites
    site_idx,        \* analyze: site_idx (1-based)
    idx,             \* analyze: the pair index idx (1-based), 0 = exhausted
    pairs_processed, \* analyze: pairs_processed
    site_error,      \* analyze: site_error ("" = None)
    site_results,    \* analyze: site_results
    pair_id,         \* analyze: pair_id of the pair being persisted
    boxes,           \* analyze: boxes still to insert for that pair
    sync_log,        \* upload_file calls for the store made by this run
    pair_log,        \* what happened to each pair this run attempted
    top_error,       \* the exception that left analyze(), "none" if none
    exit_code,       \* exit status of the process, -1 while running
    budget,          \* faults the environment may still inject
    runs_left,       \* analysis runs still to start
    unloadable       \* ids of the snapshots whose screenshot cannot be fetched

VARIABLES
    inputs,          \* arguments of the function a function-level check applies
    output,          \* what the function returned
    applied          \* whether the function has been applied

VARIABLES
    rstore,          \* weekly_report: the record store file on Drive
    conn,            \* weekly_report main: conn, the local working copy
    rpc,             \* position of the weekly_report entry point
    rows,            \* main: rows
    row_idx,         \* main: position of `for r in rows` (1-based)
    per_site_snapshots,  \* main: per_site_snapshots, in insertion order
    per_site_summaries,  \* main: per_site_summaries
    posted,          \* comments posted to the ClickUp task, oldest first
    dom_log,         \* what ensure_dom_features_for_snapshot did, all runs
    ai_log,          \* calls of the summarization made by this run
    report_error,    \* the exception that left main, "none" if none
    report_exit,     \* exit status of the report process, -1 while running
    rbudget,         \* faults the environment may still inject
    reports_left     \* report runs still to start

analysis_vars == <<drive, db, db0, pc, clock, run_no, now_iso, sites, site_idx,
                   idx, pairs_processed, site_error, site_results, pair_id,
                   boxes, sync_log, pair_log, top_error, exit_code, budget,
                   runs_left, unloadable>>

call_vars == <<inputs, output, applied>>

report_vars == <<rstore, conn, rpc, rows, row_idx, per_site_snapshots,
                 per_site_summaries, posted, dom_log, ai_log, report_error,
                 report_exit, rbudget, reports_left>>

vars == <<analysis_vars, call_vars, report_vars>>

----------------------------------------------------------------------------
(* Bounds of the model *)

MaxSnapshots == 3
MaxRuns == 2
MaxFaults == 2
BacklogRuns == 1
BacklogFaults == 1
MaxSide == 3
MaxContours == 2
MaxTextLen == 2
MaxBlocks == 2
MaxInputs == 3
MaxRows == 2
MaxReports == 2
MaxReportFaults == 1
QueueRuns == 2
QueueFaults == 0

(* The monitored pages: config/sites.json, as (site_name, url) keys in     *)
(* ORDER BY site_name, url order.                                          *)
Sites == {1, 2}

(* Difference classes of a fetched screenshot pair: 0 identical,           *)
(* 1 subtle change, 2 visible change.                                      *)
DiffClasses == {0, 1, 2}

----------------------------------------------------------------------------
(* Program constants *)

SSIM_THRESHOLD == 985
DEFAULT_SSIM_THRESHOLD == 980
MAX_PAIRS_PER_SITE == 5

(* Screenshot size of the abstract images (pixels). *)
ImgDims == [w |-> 100, h |-> 100]

(* Screenshot sizes (pixels) the box filter is checked with. *)
ImgSizes == {[w |-> 50, h |-> 50], [w |-> 100, h |-> 90],
             [w |-> 100, h |-> 95], [w |-> 100, h |-> 100]}

----------------------------------------------------------------------------
(* db.py: the record store *)

EmptyDB == [snapshots |-> {}, snap_seq |-> 0,
            pairs |-> {}, pair_seq |-> 0,
            diffs |-> {}, diff_seq |-> 0]

\* INSERT INTO snapshots: AUTOINCREMENT id, one row
insert_snapshot(d, site, captured_at) ==
    [d EXCEPT !.snapshots = @ \cup {[id |-> d.snap_seq + 1, site |-> site,
                                      captured_at |-> captured_at]},
              !.snap_seq = @ + 1]

\* a set of integers as an ascending sequence
RECURSIVE Ascending(_)
Ascending(S) ==
    IF S = {} THEN <<>>
    ELSE LET m == CHOOSE x \in S : \A y \in S : x <= y
         IN <<m>> \o Ascending(S \ {m})

\* SELECT DISTINCT site_name, url FROM snapshots ORDER BY site_name, url
get_all_sites(d) == Ascending({s.site : s \in d.snapshots})

\* ORDER BY captured_at (rows of equal captured_at in rowid order)
Before(a, b) ==
    \/ a.captured_at < b.captured_at
    \/ a.captured_at = b.captured_at /\ a.id < b.id

\* fault variant: a listing without its WHERE site_name = ? AND url = ?
get_snapshots_for_site_all_sites(d, site) ==
    [i \in 1..Cardinality(d.snapshots) |->
       CHOOSE s \in d.snapshots :
          Cardinality({t \in d.snapshots : Before(t, s)}) = i - 1]

\* SELECT * FROM snapshots WHERE site_name = ? AND url = ? ORDER BY captured_at
get_snapshots_for_site(d, site) ==
    LET S == {s \in d.snapshots : s.site = site}
    IN [i \in 1..Cardinality(S) |->
          CHOOSE s \in S : Cardinality({t \in S : Before(t, s)}) = i - 1]

\* fault variant: a lookup that never finds the row
snapshot_pair_exists_never(d, sid1, sid2) == FALSE

\* fault variant: a lookup with the two ids bound in the wrong order
snapshot_pair_exists_swapped(d, sid1, sid2) ==
    \E p \in d.pairs : p.s1 = sid2 /\ p.s2 = sid1

\* SELECT 1 FROM snapshot_pairs WHERE snapshot_id_1 = ? AND snapshot_id_2 = ?
snapshot_pair_exists(d, sid1, sid2) ==
    \E p \in d.pairs : p.s1 = sid1 /\ p.s2 = sid2

\* INSERT OR IGNORE INTO snapshot_pairs under UNIQUE (snapshot_id_1, snapshot_id_2)
insert_snapshot_pair(d, site, sid1, sid2, compared_at, global_ssim, changed) ==
    IF \E p \in d.pairs : p.s1 = sid1 /\ p.s2 = sid2
    THEN d
    ELSE [d EXCEPT !.pairs = @ \cup {[id |-> d.pair_seq + 1, site |-> site,
                                       s1 |-> sid1, s2 |-> sid2,
                                       compared_at |-> compared_at,
                                       global_ssim |-> global_ssim,
                                       changed |-> changed]},
                   !.pair_seq = @ + 1]

\* fault variant: an id fetch that finds no row
pair_row_id_missing(d, sid1, sid2) == -1

\* SELECT id FROM snapshot_pairs WHERE ...; -1 when there is no row
pair_row_id(d, sid1, sid2) ==
    IF \E p \in d.pairs : p.s1 = sid1 /\ p.s2 = sid2
    THEN (CHOOSE p \in d.pairs : p.s1 = sid1 /\ p.s2 = sid2).id
    ELSE -1

\* INSERT INTO snapshot_diffs: one bounding box of a pair
insert_snapshot_diff(d, snapshot_pair_id, box) ==
    [d EXCEPT !.diffs = @ \cup {[id |-> d.diff_seq + 1,
                                  snapshot_pair_id |-> snapshot_pair_id,
                                  x |-> box.x, y |-> box.y,
                                  w |-> box.w, h |-> box.h,
                                  area |-> box.w * box.h]},
              !.diff_seq = @ + 1]

----------------------------------------------------------------------------
(* analyze_diffs.py: the image functions *)

\* SSIM of the two grayscale images, in thousandths
compute_global_ssim(imgs) ==
    CASE imgs = 0 -> 1000
      [] imgs = 1 -> 982
      [] OTHER    -> 973

\* cv2.findContours + boundingRect on the thresholded, dilated, eroded mask
Contours(imgs) ==
    CASE imgs = 0 -> <<>>
      [] imgs = 1 -> <<[x |-> 10, y |-> 10, w |-> 4, h |-> 4]>>
      [] OTHER    -> <<[x |-> 0, y |-> 0, w |-> 1, h |-> 1],
                       [x |-> 10, y |-> 10, w |-> 20, h |-> 10],
                       [x |-> 50, y |-> 60, w |-> 5, h |-> 5]>>

\* min_area = int(min_area_ratio * w1 * h1), min_area_ratio = 0.001: the
\* product truncated to an integer.  (The float product equals the exact
\* quotient truncated for every image size used below.)
MinArea(w1, h1) == (w1 * h1) \div 1000

\* the early return of detect_diff_boxes
FastPath(global_ssim, ssim_threshold) == global_ssim >= ssim_threshold

\* the loop over the contours (lines 100-106): a bounding box is skipped
\* when area < min_area and appended otherwise
FilterBoxes(contours, w1, h1) ==
    SelectSeq(contours, LAMBDA b : ~(b.w * b.h < MinArea(w1, h1)))

\* detect_diff_boxes(img1, img2, global_ssim, ssim_threshold)
detect_diff_boxes(imgs, global_ssim, ssim_threshold) ==
    IF FastPath(global_ssim, ssim_threshold)
    THEN <<>>
    ELSE FilterBoxes(Contours(imgs), ImgDims.w, ImgDims.h)

----------------------------------------------------------------------------
(* capture_and_index.py: main, one capture run as a whole.  It downloads   *)
(* the store, inserts one snapshot (captured_at = run_ts) for every site   *)
(* whose capture succeeded, and uploads the store.                         *)

RECURSIVE InsertAll(_, _, _)
InsertAll(d, order, run_ts) ==
    IF order = <<>> THEN d
    ELSE InsertAll(insert_snapshot(d, Head(order), run_ts), Tail(order), run_ts)

CaptureRun ==
    /\ pc = "idle"
    /\ \E S \in (SUBSET Sites) \ {{}} :
          /\ Cardinality(drive.snapshots) + Cardinality(S) <= MaxSnapshots
          /\ drive' = InsertAll(drive, Ascending(S), clock + 1)
    /\ clock' = clock + 1
    /\ UNCHANGED <<db, db0, pc, run_no, now_iso, sites, site_idx, idx, pairs_processed,
                   site_error, site_results, pair_id, boxes, sync_log,
                   pair_log, top_error, exit_code, budget, runs_left>>
    /\ UNCHANGED <<unloadable, call_vars, report_vars>>

----------------------------------------------------------------------------
(* analyze_diffs.py: main and analyze *)

\* fault variant: a wrapper that lets every exception end the process
main_exit_code_unwrapped(err) == IF err = "none" THEN 0 ELSE 1

\* fault variant: a wrapper that re-raises the KeyError of a missing identifier
main_exit_code_reraise_config(err) == IF err = "config" THEN 1 ELSE 0

\* main: analyze() returning ends the process with 0; `except Exception`
\* ends it with sys.exit(0)
main_exit_code(err) == IF err = "none" THEN 0 ELSE 0

\* the exception `err` leaves analyze() and reaches main
Crash(err) ==
    /\ top_error' = err
    /\ pc' = "exited"
    /\ exit_code' = main_exit_code(err)
    /\ budget' = budget - 1

\* main: analyze() up to the site loop (lines 112-137)
StartRun ==
    /\ pc = "idle"
    /\ runs_left > 0
    /\ runs_left' = runs_left - 1
    /\ run_no' = run_no + 1
    /\ \/ \* os.environ["GDRIVE_DB_FILE_ID"] raises KeyError, or download_file raises
          /\ budget > 0
          /\ \E err \in {"config", "download"} : Crash(err)
          /\ UNCHANGED <<db, db0, now_iso, sites, site_idx>>
       \/ /\ db' = drive
          /\ db0' = drive
          /\ sites' = get_all_sites(drive)
          /\ now_iso' = run_no + 1
          /\ site_idx' = 1
          /\ pc' = "site"
          /\ top_error' = "none"
          /\ exit_code' = -1
          /\ UNCHANGED budget
    /\ UNCHANGED <<drive, clock, idx, pairs_processed, site_error,
                   site_results, pair_id, boxes, sync_log, pair_log>>
    /\ UNCHANGED <<unloadable, call_vars, report_vars>>

\* analyze: the head of the site loop (lines 139-152), and the end of the
\* run after the last site (lines 255-262)
BeginSite ==
    /\ pc = "site"
    /\ IF site_idx > Len(sites)
       THEN /\ pc' = "exited"
            /\ exit_code' = main_exit_code("none")
            /\ UNCHANGED <<site_idx, idx, pairs_processed, site_error,
                           site_results, top_error, budget>>
       ELSE LET snapshots == get_snapshots_for_site(db, sites[site_idx])
            IN \/ \* get_snapshots_for_site raises: outside every try
                  /\ budget > 0
                  /\ Crash("listing")
                  /\ UNCHANGED <<site_idx, idx, pairs_processed, site_error,
                                 site_results>>
               \/ /\ Len(snapshots) < 2
                  /\ site_results' = Append(site_results,
                        [site |-> sites[site_idx], pairs |-> 0,
                         status |-> "skipped"])
                  /\ site_idx' = site_idx + 1
                  /\ UNCHANGED <<pc, idx, pairs_processed, site_error,
                                 top_error, exit_code, budget>>
               \/ /\ Len(snapshots) >= 2
                  /\ pairs_processed' = 0
                  /\ site_error' = ""
                  /\ idx' = Len(snapshots) - 1
                  /\ pc' = "pairs"
                  /\ UNCHANGED <<site_idx, site_results, top_error,
                                 exit_code, budget>>
    /\ UNCHANGED <<drive, db, db0, clock, run_no, now_iso, sites, pair_id, boxes,
                   sync_log, pair_log, runs_left>>
    /\ UNCHANGED <<unloadable, call_vars, report_vars>>

\* fault variant: a budget test that lets one more pair through
BudgetReached_one_late(processed) == processed > MAX_PAIRS_PER_SITE

\* `if pairs_processed >= MAX_PAIRS_PER_SITE: break` (line 156)
BudgetReached(processed) == processed >= MAX_PAIRS_PER_SITE

\* analyze: one pass of `for idx in indices` up to the inner try
\* (lines 155-170)
NextPair ==
    /\ pc = "pairs"
    /\ IF idx < 1 \/ BudgetReached(pairs_processed)
       THEN /\ pc' = "finally"
            /\ UNCHANGED <<idx, pairs_processed, site_error, budget>>
       ELSE LET snapshots == get_snapshots_for_site(db, sites[site_idx])
                sid1 == snapshots[idx].id
                sid2 == snapshots[idx + 1].id
            IN \/ \* an exception outside the per-pair handler
                  /\ budget > 0
                  /\ budget' = budget - 1
                  /\ site_error' = "err"
                  /\ pc' = "finally"
                  /\ UNCHANGED <<idx, pairs_processed>>
               \/ /\ snapshot_pair_exists(db, sid1, sid2)
                  /\ idx' = idx - 1
                  /\ UNCHANGED <<pc, pairs_processed, site_error, budget>>
               \/ /\ ~snapshot_pair_exists(db, sid1, sid2)
                  /\ pairs_processed' = pairs_processed + 1
                  /\ pc' = "compare"
                  /\ UNCHANGED <<idx, site_error, budget>>
    /\ UNCHANGED <<drive, db, db0, clock, run_no, now_iso, sites, site_idx,
                   site_results, pair_id, boxes, sync_log, pair_log,
                   top_error, exit_code, runs_left>>
    /\ UNCHANGED <<unloadable, call_vars, report_vars>>

\* fault variant: no inner try, the exception reaches the
\* site's `except Exception`
PairErrorCaught_no_handler == FALSE

\* `except Exception as e: ... continue` of the per-pair try (lines 220-223)
PairErrorCaught == TRUE

\* where an exception raised inside the per-pair try leaves the run
AfterPairError ==
    /\ idx' = idx - 1
    /\ pc' = IF PairErrorCaught THEN "pairs" ELSE "finally"
    /\ site_error' = IF PairErrorCaught THEN site_error ELSE "err"

\* the entry of pair_log for the pair (sid1, sid2)
LogEntry(sid1, sid2, score, extraction, failed) ==
    [s1 |-> sid1, s2 |-> sid2, global_ssim |-> score,
     extraction |-> extraction, failed |-> failed]

\* load_image_from_drive cannot fetch one of the two screenshots
Unloadable(sid1, sid2) == sid1 \in unloadable \/ sid2 \in unloadable

\* analyze: the per-pair handler from the image fetches to detect_diff_boxes
\* (lines 172-205), with its `except Exception: continue` (lines 220-223)
ComparePair ==
    /\ pc = "compare"
    /\ LET snapshots == get_snapshots_for_site(db, sites[site_idx])
           sid1 == snapshots[idx].id
           sid2 == snapshots[idx + 1].id
       IN \/ \* load_image_from_drive, compute_global_ssim or
             \* insert_snapshot_pair raises
             /\ budget > 0
             /\ budget' = budget - 1
             /\ \E step \in {"fetch", "score", "insert_pair"} :
                   pair_log' = pair_log \cup
                       {LogEntry(sid1, sid2, -1, "none", step)}
             /\ AfterPairError
             /\ UNCHANGED <<db, pair_id, boxes>>
          \/ \* load_image_from_drive raises for a screenshot that
             \* cannot be fetched
             /\ Unloadable(sid1, sid2)
             /\ pair_log' = pair_log \cup
                   {LogEntry(sid1, sid2, -1, "none", "fetch")}
             /\ AfterPairError
             /\ UNCHANGED <<db, pair_id, boxes, budget>>
          \/ \E imgs \in (IF Unloadable(sid1, sid2) THEN {} ELSE DiffClasses) :
               LET score == compute_global_ssim(imgs)
                   changed == score < SSIM_THRESHOLD
                   d1 == insert_snapshot_pair(db, sites[site_idx], sid1, sid2,
                                              now_iso, score, changed)
                   found == detect_diff_boxes(imgs, score, DEFAULT_SSIM_THRESHOLD)
                   ran == IF FastPath(score, DEFAULT_SSIM_THRESHOLD)
                          THEN "fastpath" ELSE "ran"
               IN /\ db' = d1
                  /\ IF ~changed
                     THEN /\ pair_log' = pair_log \cup
                               {LogEntry(sid1, sid2, score, "skipped", "")}
                          /\ idx' = idx - 1
                          /\ pc' = "pairs"
                          /\ UNCHANGED <<pair_id, boxes, budget, site_error>>
                     ELSE \/ \* detect_diff_boxes raises
                             /\ budget > 0
                             /\ budget' = budget - 1
                             /\ pair_log' = pair_log \cup
                                  {LogEntry(sid1, sid2, score, "none", "detect")}
                             /\ AfterPairError
                             /\ UNCHANGED <<pair_id, boxes>>
                          \/ /\ pair_log' = pair_log \cup
                                  {LogEntry(sid1, sid2, score, ran, "")}
                             /\ pair_id' = pair_row_id(d1, sid1, sid2)
                             /\ boxes' = found
                             /\ IF found = <<>>
                                THEN idx' = idx - 1 /\ pc' = "pairs"
                                ELSE idx' = idx /\ pc' = "persist"
                             /\ UNCHANGED <<budget, site_error>>
    /\ UNCHANGED <<drive, db0, clock, run_no, now_iso, sites, site_idx,
                   pairs_processed, site_results, sync_log,
                   top_error, exit_code, runs_left>>
    /\ UNCHANGED <<unloadable, call_vars, report_vars>>

\* analyze: one pass of `for (x, y, w, h) in boxes` (lines 207-218), with
\* the handler's `except Exception: continue`
InsertDiff ==
    /\ pc = "persist"
    /\ boxes # <<>>
    /\ LET snapshots == get_snapshots_for_site(db, sites[site_idx])
       IN
       \/ \* insert_snapshot_diff raises
          /\ budget > 0
          /\ budget' = budget - 1
          /\ pair_log' = {IF e.s1 = snapshots[idx].id
                          THEN [e EXCEPT !.failed = "insert_diff"] ELSE e
                          : e \in pair_log}
          /\ boxes' = <<>>
          /\ AfterPairError
          /\ UNCHANGED db
       \/ /\ db' = insert_snapshot_diff(db, pair_id, Head(boxes))
          /\ boxes' = Tail(boxes)
          /\ IF Tail(boxes) = <<>>
             THEN idx' = idx - 1 /\ pc' = "pairs"
             ELSE idx' = idx /\ pc' = "persist"
          /\ UNCHANGED <<pair_log, budget, site_error>>
    /\ UNCHANGED <<drive, db0, clock, run_no, now_iso, sites, site_idx,
                   pairs_processed, site_results, pair_id,
                   sync_log, top_error, exit_code, runs_left>>
    /\ UNCHANGED <<unloadable, call_vars, report_vars>>

\* the status string of the finally block (lines 235-240)
SiteStatus(err, processed) ==
    IF err # "" THEN "error"
    ELSE IF processed = 0 THEN "completed (no new pairs)"
    ELSE "completed"

\* analyze: the site's `except Exception` and `finally` (lines 229-253):
\* record the result, upload the store, go on with the next site
FinishSite ==
    /\ pc = "finally"
    /\ site_results' = Append(site_results,
          [site |-> sites[site_idx], pairs |-> pairs_processed,
           status |-> SiteStatus(site_error, pairs_processed)])
    /\ \/ \* upload_file raises: caught and logged
          /\ budget > 0
          /\ budget' = budget - 1
          /\ sync_log' = Append(sync_log, [site |-> sites[site_idx], ok |-> FALSE])
          /\ UNCHANGED drive
       \/ /\ drive' = db
          /\ sync_log' = Append(sync_log, [site |-> sites[site_idx], ok |-> TRUE])
          /\ UNCHANGED budget
    /\ site_idx' = site_idx + 1
    /\ pc' = "site"
    /\ UNCHANGED <<db, db0, clock, run_no, now_iso, sites, idx, pairs_processed,
                   site_error, pair_id, boxes, pair_log, top_error, exit_code,
                   runs_left>>
    /\ UNCHANGED <<unloadable, call_vars, report_vars>>

\* the state of a process that is not running: no local file, no locals
NotRunning ==
    /\ db = EmptyDB
    /\ db0 = EmptyDB
    /\ pc = "idle"
    /\ now_iso = 0
    /\ sites = <<>>
    /\ site_idx = 0
    /\ idx = 0
    /\ pairs_processed = 0
    /\ site_error = ""
    /\ site_results = <<>>
    /\ pair_id = 0
    /\ boxes = <<>>
    /\ sync_log = <<>>
    /\ pair_log = {}
    /\ top_error = "none"
    /\ exit_code = -1

\* the process of a run ends: its working directory and locals are gone,
\* the store on Drive is what the next run starts from
EndProcess ==
    /\ pc = "exited"
    /\ db' = EmptyDB
    /\ db0' = EmptyDB
    /\ pc' = "idle"
    /\ now_iso' = 0
    /\ sites' = <<>>
    /\ site_idx' = 0
    /\ idx' = 0
    /\ pairs_processed' = 0
    /\ site_error' = ""
    /\ site_results' = <<>>
    /\ pair_id' = 0
    /\ boxes' = <<>>
    /\ sync_log' = <<>>
    /\ pair_log' = {}
    /\ top_error' = "none"
    /\ exit_code' = -1
    /\ UNCHANGED <<drive, clock, run_no, budget, runs_left>>
    /\ UNCHANGED <<unloadable, call_vars, report_vars>>

----------------------------------------------------------------------------
(* Function-level checks: the arguments are drawn by the initial state,    *)
(* one step applies the function.                                          *)

NoCall ==
    /\ inputs = <<>>
    /\ output = <<>>
    /\ applied = FALSE

\*WEEKLY

----------------------------------------------------------------------------
(* weekly_report.py: main, the weekly report run *)

\* a store without snapshots and without DOM feature records
EmptyStore == [snapshots |-> {}, dom_features |-> {}]

\* the state of a report process that is not running
ReportNotRunning ==
    /\ conn = EmptyStore
    /\ rpc = "idle"
    /\ rows = <<>>
    /\ row_idx = 0
    /\ per_site_snapshots = <<>>
    /\ per_site_summaries = <<>>
    /\ ai_log = <<>>
    /\ report_error = "none"
    /\ report_exit = -1

----------------------------------------------------------------------------
(* weekly_report.py: texts.  A str is the sequence of its characters, each *)
(* a one-character string; None is a value that is no str.                 *)

None == <<"None">>

UPPERCASE == <<"A", "B", "C", "D", "E", "F", "G", "H", "I", "J", "K", "L", "M",
               "N", "O", "P", "Q", "R", "S", "T", "U", "V", "W", "X", "Y", "Z">>
LOWERCASE == <<"a", "b", "c", "d", "e", "f", "g", "h", "i", "j", "k", "l", "m",
               "n", "o", "p", "q", "r", "s", "t", "u", "v", "w", "x", "y", "z">>

\* str.lower() of one character
LowerChar(c) ==
    IF \E i \in DOMAIN UPPERCASE : UPPERCASE[i] = c
    THEN LOWERCASE[CHOOSE i \in DOMAIN UPPERCASE : UPPERCASE[i] = c]
    ELSE c

\* fault variant: the text is not lower-cased
lower_missing(text) == text

\* str.lower()
lower(text) == [i \in DOMAIN text |-> LowerChar(text[i])]

\* characters str.strip() and str.split() treat as whitespace
Whitespace == {" ", "\t", "\n"}

\* str.lstrip(): the text from its first character that is no whitespace
lstrip(text) ==
    IF \A i \in DOMAIN text : text[i] \in Whitespace THEN <<>>
    ELSE SubSeq(text,
                CHOOSE i \in DOMAIN text :
                    /\ text[i] \notin Whitespace
                    /\ \A k \in 1 .. (i - 1) : text[k] \in Whitespace,
                Len(text))

\* str.rstrip(): the text up to its last character that is no whitespace
rstrip(text) ==
    IF \A i \in DOMAIN text : text[i] \in Whitespace THEN <<>>
    ELSE SubSeq(text, 1,
                CHOOSE i \in DOMAIN text :
                    /\ text[i] \notin Whitespace
                    /\ \A k \in (i + 1) .. Len(text) : text[k] \in Whitespace)

\* str.strip()
strip(text) == rstrip(lstrip(text))

\* `x or ""`: None and the empty str give the empty str
OrEmpty(x) == IF x = None THEN <<>> ELSE x

\* hashlib.sha256(base.encode("utf-8")).hexdigest(): the digest is a value
\* determined by the bytes hashed, different for different bytes
sha256_hexdigest(base) == <<"sha256">> \o base

\* fault variant: the fallback digest is preferred to the hero texts
compute_variant_key_fallback_first(hero_heading, hero_cta_text, fallback) ==
    LET hh == lower(strip(OrEmpty(hero_heading)))
        hc == lower(strip(OrEmpty(hero_cta_text)))
    IN  IF OrEmpty(fallback) # <<>>
        THEN sha256_hexdigest(lower(strip(fallback)))
        ELSE IF hh # <<>> \/ hc # <<>>
             THEN sha256_hexdigest(hh \o <<"|">> \o hc)
             ELSE None

\* compute_variant_key(hero_heading, hero_cta_text, fallback)
compute_variant_key(hero_heading, hero_cta_text, fallback) ==
    LET hh == lower(strip(OrEmpty(hero_heading)))
        hc == lower(strip(OrEmpty(hero_cta_text)))
    IN  IF hh # <<>> \/ hc # <<>>
        THEN sha256_hexdigest(hh \o <<"|">> \o hc)
        ELSE IF OrEmpty(fallback) # <<>>
             THEN sha256_hexdigest(lower(strip(fallback)))
             ELSE None

----------------------------------------------------------------------------
(* weekly_report.py: extract_dom_features_from_html.  The parsed markup is *)
(* the list of its section/header/main/div/article elements in document    *)
(* order (what body.find_all returns, scripts and styles removed) and the  *)
(* texts of the h2/h3 elements of the body in document order.  An element  *)
(* is given by what the calls on it return: its text (get_text), its class *)
(* and id attributes, whether it holds an img/picture/video, the texts of  *)
(* its h1-h3 and of its p descendants, and its a/button descendants (label *)
(* and href, None when the attribute is missing), each in document order.  *)

CTA_KEYWORDS == <<
    <<"g", "e", "t", " ", "s", "t", "a", "r", "t", "e", "d">>,
    <<"s", "t", "a", "r", "t", " ", "f", "r", "e", "e">>,
    <<"s", "t", "a", "r", "t", " ", "t", "r", "i", "a", "l">>,
    <<"t", "r", "y", " ", "f", "o", "r", " ", "f", "r", "e", "e">>,
    <<"t", "r", "y", " ", "i", "t", " ", "f", "r", "e", "e">>,
    <<"s", "i", "g", "n", " ", "u", "p">>,
    <<"s", "i", "g", "n", " ", "i", "n">>,
    <<"b", "o", "o", "k", " ", "a", " ", "d", "e", "m", "o">>,
    <<"r", "e", "q", "u", "e", "s", "t", " ", "d", "e", "m", "o">>,
    <<"t", "a", "l", "k", " ", "t", "o", " ", "s", "a", "l", "e", "s">>,
    <<"c", "o", "n", "t", "a", "c", "t", " ", "s", "a", "l", "e", "s">>,
    <<"j", "o", "i", "n", " ", "n", "o", "w">>,
    <<"s", "t", "a", "r", "t", " ", "n", "o", "w">>,
    <<"l", "e", "a", "r", "n", " ", "m", "o", "r", "e">>>>

HERO_CLASS_KEYWORDS == <<<<"h", "e", "r", "o">>, <<"b", "a", "n", "n", "e", "r">>, <<"j", "u", "m", "b", "o", "t", "r", "o", "n">>>>

\* `kw in text`
Contains(text, kw) ==
    \E i \in 1 .. (Len(text) - Len(kw) + 1) :
        SubSeq(text, i, i + Len(kw) - 1) = kw

\* any(kw in text for kw in keywords)
ContainsAny(text, keywords) ==
    \E k \in DOMAIN keywords : Contains(text, keywords[k])

\* runs of whitespace inside a trimmed text become one space: of a run,
\* the last character is kept, as a space
Squeeze(text) ==
    LET positions == [i \in DOMAIN text |-> i]
        kept == SelectSeq(positions,
                          LAMBDA i : \/ text[i] \notin Whitespace
                                     \/ i = Len(text)
                                     \/ text[i + 1] \notin Whitespace)
    IN  [k \in DOMAIN kept |->
            IF text[kept[k]] \in Whitespace THEN " " ELSE text[kept[k]]]

\* normalize_space(text): " ".join(text.split())
normalize_space(text) == Squeeze(strip(text))

\* text[:n]
Prefix(text, n) == SubSeq(text, 1, IF Len(text) < n THEN Len(text) ELSE n)

\* `a or b` of two str
OrElse(a, b) == IF a # <<>> THEN a ELSE b

\* lines 94-105: the heading of a block, its first h1-h3 or else its first
\* <p> when that is 15 to 160 characters long
HeadingText(el) ==
    LET heading_text == IF el.headings # <<>>
                        THEN normalize_space(Head(el.headings))
                        ELSE <<>>
        pt == IF el.ps # <<>> THEN normalize_space(Head(el.ps)) ELSE <<>>
    IN  IF heading_text # <<>> THEN heading_text
        ELSE IF el.ps # <<>> /\ 15 <= Len(pt) /\ Len(pt) <= 160 THEN pt
        ELSE <<>>

\* lines 111-113: the a/button elements whose lower-cased label holds a
\* call-to-action phrase
IsCta(btn) == ContainsAny(lower(normalize_space(btn.label)), CTA_KEYWORDS)

\* for each a/button of the block in document order, whether it is one
CtaFlags(el) == [j \in DOMAIN el.buttons |-> IsCta(el.buttons[j])]

\* the position of the first TRUE, 0 if there is none
FirstTrue(flags) ==
    IF \E j \in DOMAIN flags : flags[j]
    THEN CHOOSE j \in DOMAIN flags :
            flags[j] /\ \A k \in 1 .. (j - 1) : ~flags[k]
    ELSE 0

\* lines 108-117: index in el.buttons of cta_el, the first such element
\* (the loop breaks at it), 0 if there is none
CtaIndex(el) == FirstTrue(CtaFlags(el))

\* lines 85-90
HasHeroClass(el) ==
    \/ ContainsAny(lower(el.classes), HERO_CLASS_KEYWORDS)
    \/ ContainsAny(lower(OrEmpty(el.id)), HERO_CLASS_KEYWORDS)

\* lines 119-126; i is idx, the 0-based position of el, j the index of
\* its CTA element
HeroScore(el, i, heading_text, j) ==
    LET pos == 5 - (i \div 3)
        pos_score == IF pos > 0 THEN pos ELSE 0
        heading_score == IF heading_text # <<>> THEN 2 ELSE 0
        cta_score == IF j # 0 THEN 3 ELSE 0
        hero_class_score == IF HasHeroClass(el) THEN 1 ELSE 0
        visual_score == IF el.media THEN 1 ELSE 0
    IN  pos_score + heading_score + cta_score + hero_class_score + visual_score

\* lines 128-138: the candidate record of a block with the given heading
\* and CTA element
CandidateOf(el, i, heading_text, j) ==
    [idx |-> i,
     element |-> el,
     text |-> normalize_space(el.text),
     hero_score |-> HeroScore(el, i, heading_text, j),
     heading_text |-> heading_text,
     cta_text |-> IF j = 0 THEN <<>> ELSE normalize_space(el.buttons[j].label),
     cta_href |-> IF j = 0 THEN <<>> ELSE OrEmpty(el.buttons[j].href)]

\* lines 80-138: the candidate record of the block el at idx i
Candidate(el, i) == CandidateOf(el, i, HeadingText(el), CtaIndex(el))

\* lines 78-82: the blocks that become candidates: idx <= 80 and at least
\* 30 characters of text
IsCandidate(el, i) == ~(i > 80) /\ ~(Len(normalize_space(el.text)) < 30)

\* the elements of seq at the given positions
At(seq, positions) == [k \in DOMAIN positions |-> seq[positions[k]]]

\* lines 74-138: candidates, in document order
Candidates(blocks) ==
    At([i \in DOMAIN blocks |-> Candidate(blocks[i], i - 1)],
       SelectSeq([i \in DOMAIN blocks |-> i],
                 LAMBDA i : IsCandidate(blocks[i], i - 1)))

\* fault variant: the last of the best-scored candidates is taken
BestOf_last_max(candidates) ==
    candidates[CHOOSE k \in DOMAIN candidates :
        \A j \in DOMAIN candidates :
            \/ candidates[j].hero_score < candidates[k].hero_score
            \/ (candidates[j].hero_score = candidates[k].hero_score /\ j <= k)]

\* line 146: max(candidates, key=hero_score), the first of the candidates
\* with the highest score
BestOf(candidates) ==
    candidates[CHOOSE k \in DOMAIN candidates :
        \A j \in DOMAIN candidates :
            \/ candidates[j].hero_score < candidates[k].hero_score
            \/ (candidates[j].hero_score = candidates[k].hero_score /\ k <= j)]

\* line 147: best["heading_text"] or best["text"][:200]
HeroHeading(best) == OrElse(best.heading_text, Prefix(best.text, 200))

\* lines 153-160: the first <p> of the hero block unless it is the heading
HeroSubheading(el, hero_heading) ==
    IF el.ps # <<>> /\ normalize_space(Head(el.ps)) # hero_heading
    THEN normalize_space(Head(el.ps))
    ELSE <<>>

\* lines 163-169: the h2/h3 texts, without repeats, until there are 8
RECURSIVE MainSections(_, _)
MainSections(hs, main_sections) ==
    IF hs = <<>> THEN main_sections
    ELSE LET txt == normalize_space(Head(hs))
             appended == IF txt # <<>> /\ \A k \in DOMAIN main_sections :
                                             main_sections[k] # txt
                         THEN Append(main_sections, txt)
                         ELSE main_sections
         IN  IF Len(appended) >= 8 THEN appended
             ELSE MainSections(Tail(hs), appended)

\* lines 171-177: the result, given the hero texts
Features(heading, subheading, cta_text, cta_href, main_sections) ==
    [hero_heading |-> heading, hero_subheading |-> subheading,
     hero_cta_text |-> cta_text, hero_cta_href |-> cta_href,
     main_sections |-> main_sections]

\* lines 145-160: the hero texts are those of the best candidate
FeaturesOfBest(best, hero_heading, main_sections) ==
    Features(hero_heading, HeroSubheading(best.element, hero_heading),
             best.cta_text, best.cta_href, main_sections)

\* lines 140-177
ExtractFrom(candidates, main_sections) ==
    IF candidates = <<>>
    THEN Features(<<>>, <<>>, <<>>, <<>>, main_sections)
    ELSE FeaturesOfBest(BestOf(candidates), HeroHeading(BestOf(candidates)),
                        main_sections)

\* extract_dom_features_from_html(html)
extract_dom_features_from_html(html) ==
    ExtractFrom(Candidates(html.blocks), MainSections(html.sections, <<>>))

\* ensure_dom_features_for_snapshot, lines 222-255: the record stored and
\* returned for the extracted features.  main_sections_json is the list
\* json.loads gives back for it.
DomFeaturesRecord(snapshot_id, feats, dom_hash) ==
    [snapshot_id |-> snapshot_id,
     hero_heading |-> OrEmpty(feats.hero_heading),
     hero_subheading |-> OrEmpty(feats.hero_subheading),
     hero_cta_text |-> OrEmpty(feats.hero_cta_text),
     hero_cta_href |-> OrEmpty(feats.hero_cta_href),
     main_sections_json |-> feats.main_sections,
     variant_key |-> compute_variant_key(OrEmpty(feats.hero_heading),
                                         OrEmpty(feats.hero_cta_text),
                                         dom_hash)]

\* ensure_dom_features_for_snapshot, lines 219-255: the record built from
\* the markup and the dom_hash of a snapshot
BuildDomFeatures(snapshot_id, html, dom_hash) ==
    DomFeaturesRecord(snapshot_id, extract_dom_features_from_html(html),
                      dom_hash)

----------------------------------------------------------------------------
(* weekly_report.py: build_site_variants.  The dict `variants` is the      *)
(* sequence of its items in insertion order, the key of an item in `vk`.   *)

NO_VARIANT_KEY == <<"__no_variant_key__">>

\* lines 279-282: the key a snapshot is grouped under
BucketKey(feats) ==
    IF OrEmpty(feats.variant_key) = <<>> THEN NO_VARIANT_KEY
    ELSE feats.variant_key

\* `vk in variants`
HasBucket(variants, vk) == \E k \in DOMAIN variants : variants[k].vk = vk

\* lines 288-297: the item created for a key not seen before
NewBucket(vk, s) ==
    [vk |-> vk,
     hero_heading |-> OrEmpty(s.dom_features.hero_heading),
     hero_cta_text |-> OrEmpty(s.dom_features.hero_cta_text),
     count |-> 0,
     first_ts |-> s.captured_at,
     last_ts |-> s.captured_at,
     example_screenshot_id |-> s.screenshot_drive_id,
     main_sections |-> s.dom_features.main_sections_json]

\* fault variant: the example is the first member's, never replaced
UpdateBucket_first_example(v, s) ==
    [v EXCEPT
        !.count = v.count + 1,
        !.first_ts = IF s.captured_at < v.first_ts THEN s.captured_at ELSE @,
        !.last_ts = IF s.captured_at > v.last_ts THEN s.captured_at ELSE @]

\* lines 299-310: a snapshot is counted in the item of its key
UpdateBucket(v, s) ==
    LET hero_heading == OrEmpty(s.dom_features.hero_heading)
        hero_cta_text == OrEmpty(s.dom_features.hero_cta_text)
    IN  [v EXCEPT
            !.count = v.count + 1,
            !.first_ts = IF s.captured_at < v.first_ts THEN s.captured_at ELSE @,
            !.last_ts = IF s.captured_at > v.last_ts THEN s.captured_at ELSE @,
            !.example_screenshot_id =
                IF s.captured_at > v.last_ts THEN s.screenshot_drive_id ELSE @,
            !.hero_heading =
                IF hero_heading # <<>> /\ v.hero_heading = <<>>
                THEN hero_heading ELSE @,
            !.hero_cta_text =
                IF hero_cta_text # <<>> /\ v.hero_cta_text = <<>>
                THEN hero_cta_text ELSE @]

\* fault variant: a snapshot without a variant key is left out
AddSnapshot_skip_no_key(variants, s) ==
    LET vk == BucketKey(s.dom_features)
        with_item == IF HasBucket(variants, vk) THEN variants
                     ELSE Append(variants, NewBucket(vk, s))
    IN  IF vk = NO_VARIANT_KEY THEN variants
        ELSE [k \in DOMAIN with_item |->
                 IF with_item[k].vk = vk THEN UpdateBucket(with_item[k], s)
                 ELSE with_item[k]]

\* fault variant: a new item is put in front of the items already there
AddSnapshot_new_item_first(variants, s) ==
    LET vk == BucketKey(s.dom_features)
        with_item == IF HasBucket(variants, vk) THEN variants
                     ELSE <<NewBucket(vk, s)>> \o variants
    IN  [k \in DOMAIN with_item |->
            IF with_item[k].vk = vk THEN UpdateBucket(with_item[k], s)
            ELSE with_item[k]]

\* lines 273-310: one iteration of `for s in snapshots_with_features`
AddSnapshot(variants, s) ==
    LET vk == BucketKey(s.dom_features)
        with_item == IF HasBucket(variants, vk) THEN variants
                     ELSE Append(variants, NewBucket(vk, s))
    IN  [k \in DOMAIN with_item |->
            IF with_item[k].vk = vk THEN UpdateBucket(with_item[k], s)
            ELSE with_item[k]]

RECURSIVE AddSnapshots(_, _)
AddSnapshots(variants, snaps) ==
    IF snaps = <<>> THEN variants
    ELSE AddSnapshots(AddSnapshot(variants, Head(snaps)), Tail(snaps))

\* build_site_variants(snapshots_with_features)
build_site_variants(snapshots_with_features) ==
    AddSnapshots(<<>>, snapshots_with_features)

\* main, lines 421-433: which summary a site gets
SummaryBranch(variants) ==
    IF variants = <<>> THEN "none"
    ELSE IF Len(variants) = 1 THEN "stable"
    ELSE "multiple"

\* whether db.get_dom_features(conn, snapshot_id) gives a record
HasDomFeatures(d, snapshot_id) ==
    \E f \in d.dom_features : f.snapshot_id = snapshot_id

\* db.get_dom_features(conn, snapshot_id): the record stored for the
\* snapshot id (None when there is none: HasDomFeatures)
get_dom_features(d, snapshot_id) ==
    CHOOSE f \in d.dom_features : f.snapshot_id = snapshot_id

\* db.upsert_dom_features(conn, snapshot_id=..., ...): the record of the
\* snapshot id is inserted, or replaced when there is one
upsert_dom_features(d, rec) ==
    [d EXCEPT !.dom_features =
        {f \in @ : f.snapshot_id # rec.snapshot_id} \cup {rec}]

\* ORDER BY site_name, url, captured_at (rows of equal rank in id order)
RowBefore(a, b) ==
    \/ a.site < b.site
    \/ a.site = b.site /\ a.captured_at < b.captured_at
    \/ a.site = b.site /\ a.captured_at = b.captured_at /\ a.id < b.id

RECURSIVE SortRows(_)
SortRows(S) ==
    IF S = {} THEN <<>>
    ELSE LET first == CHOOSE r \in S : \A q \in S \ {r} : RowBefore(r, q)
         IN  <<first>> \o SortRows(S \ {first})

\* db.get_weekly_snapshots(conn, since_iso)
get_weekly_snapshots(d, since_iso) ==
    SortRows({r \in d.snapshots : r.captured_at >= since_iso})

\* main, lines 395-399: week_start, as the ordinal of the first capture
\* run of the last 7 days
WeekStart == 1

\* ensure_dom_features_for_snapshot, lines 210-212: `if existing`, a
\* stored record is returned as it is
ReturnsStored(d, snapshot_id) == HasDomFeatures(d, snapshot_id)

\* main, lines 410-413: the row with its features is appended to the list
\* of its site
AppendSnap(per_site, snap) ==
    IF \E k \in DOMAIN per_site : per_site[k].key = snap.site
    THEN [k \in DOMAIN per_site |->
            IF per_site[k].key = snap.site
            THEN [per_site[k] EXCEPT !.snaps = Append(@, snap)]
            ELSE per_site[k]]
    ELSE Append(per_site, [key |-> snap.site, snaps |-> <<snap>>])

\* the row r with its features, as build_site_variants reads it
SnapOf(r, feats) ==
    [id |-> r.id, site |-> r.site, captured_at |-> r.captured_at,
     screenshot_drive_id |-> r.screenshot_drive_id, dom_features |-> feats]

\* build_raw_variant_text_for_ai(variants): a text that lists the variants
build_raw_variant_text_for_ai(variants) ==
    [kind |-> "raw",
     lines |-> [k \in DOMAIN variants |->
                  [no_key |-> variants[k].vk = NO_VARIANT_KEY,
                   hero_heading |-> variants[k].hero_heading,
                   hero_cta_text |-> variants[k].hero_cta_text,
                   count |-> variants[k].count,
                   first_ts |-> variants[k].first_ts,
                   last_ts |-> variants[k].last_ts]]]

\* main, lines 424-431: the summary of a site with one variant
StableSummary(variants) ==
    [kind |-> "stable",
     hero_heading |-> variants[1].hero_heading,
     hero_cta_text |-> variants[1].hero_cta_text]

\* ai_client.summarise_dom_variants_with_flash(site_name, url, raw_text):
\* what a call can give: a text, an empty text, or an exception
AiOutcomes == {"text", "empty", "error"}
AiText(site, raw_text) == [kind |-> "ai", site |-> site, of |-> raw_text]

\* fault variant: no handler around the summarization
AiErrorCaught_no_handler == FALSE

\* main, lines 435-440: the try/except around the summarization
AiErrorCaught == TRUE

\* fault variant: an empty answer is taken as the summary
SummaryText_empty_kept(site, variants, outcome) ==
    IF variants = <<>> THEN [kind |-> "none"]
    ELSE IF Len(variants) = 1 THEN StableSummary(variants)
    ELSE IF outcome = "text"
         THEN AiText(site, build_raw_variant_text_for_ai(variants))
         ELSE IF outcome = "empty" THEN [kind |-> "empty"]
         ELSE build_raw_variant_text_for_ai(variants)

\* main, lines 421-440: summary_text of a site; `outcome` is what the
\* summarization gave, when it is called
SummaryText(site, variants, outcome) ==
    IF variants = <<>> THEN [kind |-> "none"]
    ELSE IF Len(variants) = 1 THEN StableSummary(variants)
    ELSE IF outcome = "text"
         THEN AiText(site, build_raw_variant_text_for_ai(variants))
         ELSE build_raw_variant_text_for_ai(variants)

\* build_clickup_message(per_site_summaries, week_start, week_end)
build_clickup_message(summaries) ==
    IF summaries = <<>> THEN [header |-> "weekly", body |-> "no data"]
    ELSE [header |-> "weekly",
          body |-> [k \in DOMAIN summaries |->
                      [site_name |-> summaries[k].site_name,
                       summary_text |-> summaries[k].summary_text,
                       examples |-> [j \in DOMAIN summaries[k].variants |->
                          summaries[k].variants[j].example_screenshot_id]]]]

\* an exception leaves main: the traceback is printed, the status is 1
ReportCrash(err) ==
    /\ report_error' = err
    /\ rpc' = "exited"
    /\ report_exit' = 1
    /\ rbudget' = rbudget - 1

\* where main is once the row at position i is done
PcAfterRow(i, per_site) ==
    IF i < Len(rows) THEN "rows"
    ELSE IF per_site # <<>> THEN "sites"
    ELSE "post"

\* main, lines 384-404: up to the loop over the rows
StartReport ==
    /\ rpc = "idle"
    /\ reports_left > 0
    /\ reports_left' = reports_left - 1
    /\ \/ /\ rbudget > 0
          /\ \E err \in {"config", "download"} : ReportCrash(err)
          /\ UNCHANGED <<conn, rows, row_idx>>
       \/ /\ conn' = rstore
          /\ rows' = get_weekly_snapshots(rstore, WeekStart)
          /\ row_idx' = 1
          /\ rpc' = IF rows' # <<>> THEN "rows" ELSE "post"
          /\ UNCHANGED <<report_error, report_exit, rbudget>>
    /\ UNCHANGED <<rstore, per_site_snapshots, per_site_summaries, posted,
                   dom_log, ai_log>>
    /\ UNCHANGED <<analysis_vars, call_vars>>

\* what ensure_dom_features_for_snapshot did for a row
DomLogEntry(r, existed, fetched, upserted, failed) ==
    [run |-> reports_left, id |-> r.id, existed |-> existed,
     fetched |-> fetched, upserted |-> upserted, failed |-> failed]

\* main, lines 410-413: the row r got the features feats; `existed` tells
\* whether they were stored before
RowDone(r, feats, existed) ==
    /\ per_site_snapshots' = AppendSnap(per_site_snapshots, SnapOf(r, feats))
    /\ dom_log' = dom_log \cup
          {DomLogEntry(r, existed, ~existed, ~existed, "")}
    /\ row_idx' = row_idx + 1
    /\ rpc' = PcAfterRow(row_idx, per_site_snapshots')
    /\ UNCHANGED <<report_error, report_exit, rbudget>>

\* ensure_dom_features_for_snapshot, lines 214-255, for a row without a
\* stored record: the markup is downloaded, read and analysed, the record
\* is upserted.  No handler encloses this, here or in main: an exception
\* of download_file, read_text or the extraction leaves main.
ComputeRow(r) ==
    \/ /\ rbudget > 0
       /\ \E step \in {"fetch", "parse"} :
             /\ ReportCrash(step)
             /\ dom_log' = dom_log \cup
                   {DomLogEntry(r, FALSE, TRUE, FALSE, step)}
       /\ UNCHANGED <<conn, per_site_snapshots, row_idx>>
    \/ \E feats \in {BuildDomFeatures(r.id, r.html, r.dom_hash)} :
          /\ conn' = upsert_dom_features(conn, feats)
          /\ RowDone(r, feats, FALSE)

\* main, lines 408-413: one iteration of `for r in rows`, with the call of
\* ensure_dom_features_for_snapshot (lines 204-255)
EnsureRow ==
    /\ rpc = "rows"
    /\ IF ReturnsStored(conn, rows[row_idx].id)
       THEN /\ RowDone(rows[row_idx],
                       get_dom_features(conn, rows[row_idx].id), TRUE)
            /\ UNCHANGED conn
       ELSE ComputeRow(rows[row_idx])
    /\ UNCHANGED <<rstore, rows, per_site_summaries, posted, ai_log,
                   reports_left>>
    /\ UNCHANGED <<analysis_vars, call_vars>>

\* main, lines 442-449
SummaryEntry(site, summary_text, variants) ==
    [site_name |-> site, summary_text |-> summary_text, variants |-> variants]

\* main, lines 442-449 and the step to the next site (k is the position
\* of the site just summarized)
SiteDone(k, site, summary_text, variants) ==
    /\ per_site_summaries' =
          Append(per_site_summaries, SummaryEntry(site, summary_text, variants))
    /\ rpc' = IF k < Len(per_site_snapshots) THEN "sites" ELSE "post"
    /\ UNCHANGED <<report_error, report_exit>>

\* main, lines 421-449, for the variants of the site at position k
SummarizeVariants(k, site, variants) ==
    IF SummaryBranch(variants) # "multiple"
    THEN /\ SiteDone(k, site, SummaryText(site, variants, "none"), variants)
         /\ UNCHANGED <<ai_log, rbudget>>
    ELSE \E outcome \in AiOutcomes :
            /\ outcome = "error" => rbudget > 0
            /\ ai_log' = Append(ai_log, [site |-> site, outcome |-> outcome])
            /\ IF outcome = "error" /\ ~AiErrorCaught
               THEN /\ ReportCrash("ai")
                    /\ UNCHANGED per_site_summaries
               ELSE /\ SiteDone(k, site, SummaryText(site, variants, outcome),
                                variants)
                    /\ rbudget' = IF outcome = "error"
                                  THEN rbudget - 1 ELSE rbudget

\* main, lines 417-449: one iteration of the loop over the sites
SummarizeSite ==
    /\ rpc = "sites"
    /\ \E k \in {Len(per_site_summaries) + 1} :
          SummarizeVariants(k, per_site_snapshots[k].key,
                            build_site_variants(per_site_snapshots[k].snaps))
    /\ UNCHANGED <<rstore, conn, rows, row_idx, per_site_snapshots, posted,
                   dom_log, reports_left>>
    /\ UNCHANGED <<analysis_vars, call_vars>>

\* main, lines 452-457: the comment is built and posted
PostComment ==
    /\ rpc = "post"
    /\ \/ /\ rbudget > 0
          /\ ReportCrash("post")
          /\ UNCHANGED posted
       \/ /\ posted' = Append(posted, build_clickup_message(per_site_summaries))
          /\ rpc' = "upload"
          /\ UNCHANGED <<report_error, report_exit, rbudget>>
    /\ UNCHANGED <<rstore, conn, rows, row_idx, per_site_snapshots,
                   per_site_summaries, dom_log, ai_log, reports_left>>
    /\ UNCHANGED <<analysis_vars, call_vars>>

\* main, lines 459-466: the store is uploaded, main returns
UploadStore ==
    /\ rpc = "upload"
    /\ \/ /\ rbudget > 0
          /\ ReportCrash("upload")
          /\ UNCHANGED rstore
       \/ /\ rstore' = conn
          /\ rpc' = "exited"
          /\ report_exit' = 0
          /\ UNCHANGED <<report_error, rbudget>>
    /\ UNCHANGED <<conn, rows, row_idx, per_site_snapshots, per_site_summaries,
                   posted, dom_log, ai_log, reports_left>>
    /\ UNCHANGED <<analysis_vars, call_vars>>

\* the report process ends: its working directory and locals are gone
EndReport ==
    /\ rpc = "exited"
    /\ conn' = EmptyStore
    /\ rpc' = "idle"
    /\ rows' = <<>>
    /\ row_idx' = 0
    /\ per_site_snapshots' = <<>>
    /\ per_site_summaries' = <<>>
    /\ ai_log' = <<>>
    /\ report_error' = "none"
    /\ report_exit' = -1
    /\ UNCHANGED <<rstore, posted, dom_log, rbudget, reports_left>>
    /\ UNCHANGED <<analysis_vars, call_vars>>


----------------------------------------------------------------------------
(* Specifications *)

\* a new store: no snapshot captured yet
Init ==
    /\ NotRunning
    /\ drive = EmptyDB
    /\ clock = 0
    /\ run_no = 0
    /\ budget = MaxFaults
    /\ runs_left = MaxRuns
    /\ unloadable = {}
    /\ NoCall
    /\ ReportNotRunning
    /\ rstore = EmptyStore
    /\ posted = <<>>
    /\ dom_log = {}
    /\ rbudget = 0
    /\ reports_left = 0

Analyze == StartRun \/ BeginSite \/ NextPair \/ ComparePair \/ InsertDiff
           \/ FinishSite \/ EndProcess

Next == CaptureRun \/ Analyze

Spec == Init /\ [][Next]_vars

\* the store after `n` capture runs: site 1 captured by every run, the other
\* sites by the first two
RECURSIVE History(_)
History(n) ==
    IF n = 0 THEN EmptyDB
    ELSE InsertAll(History(n - 1),
                   Ascending(IF n <= 2 THEN Sites ELSE {1}), n)

BacklogLen == MAX_PAIRS_PER_SITE + 1

\* a store with a backlog: a site with MAX_PAIRS_PER_SITE uncompared pairs
InitBacklog ==
    /\ NotRunning
    /\ drive = History(BacklogLen)
    /\ clock = BacklogLen
    /\ run_no = 0
    /\ budget = BacklogFaults
    /\ runs_left = BacklogRuns
    /\ unloadable = {}
    /\ NoCall
    /\ ReportNotRunning
    /\ rstore = EmptyStore
    /\ posted = <<>>
    /\ dom_log = {}
    /\ rbudget = 0
    /\ reports_left = 0

SpecBacklog == InitBacklog /\ [][Analyze]_vars

\* no analysis or capture process, an empty analysis store
AnalysisIdle ==
    /\ NotRunning
    /\ drive = EmptyDB
    /\ clock = 0
    /\ run_no = 0
    /\ budget = 0
    /\ runs_left = 0
    /\ unloadable = {}

\* no report process, an empty report store
ReportIdle ==
    /\ ReportNotRunning
    /\ rstore = EmptyStore
    /\ posted = <<>>
    /\ dom_log = {}
    /\ rbudget = 0
    /\ reports_left = 0

\* the bounding boxes cv2.boundingRect can return for contours
BoxSides == 1 .. MaxSide
CandidateBoxes == [x : {0}, y : {0}, w : BoxSides, h : BoxSides]

\* the sequences of at most n elements of S
SeqsUpTo(S, n) == UNION {[1 .. k -> S] : k \in 0 .. n}

\* detect_diff_boxes past the early return: any image size and any contours
InitBoxes ==
    /\ AnalysisIdle
    /\ ReportIdle
    /\ inputs \in [size : ImgSizes,
                    contours : SeqsUpTo(CandidateBoxes, MaxContours)]
    /\ output = <<>>
    /\ applied = FALSE

ApplyFilterBoxes ==
    /\ ~applied
    /\ output' = FilterBoxes(inputs.contours, inputs.size.w, inputs.size.h)
    /\ applied' = TRUE
    /\ UNCHANGED <<inputs, analysis_vars, report_vars>>

SpecBoxes == InitBoxes /\ [][ApplyFilterBoxes]_vars

\* characters of the texts the key is computed from
KeyChars == {"a", "A", " ", "|"}
Texts == SeqsUpTo(KeyChars, MaxTextLen)

GetStarted == <<"G", "e", "t", " ", "S", "t", "a", "r", "t", "e", "d">>
get_started == <<"g", "e", "t", " ", "s", "t", "a", "r", "t", "e", "d">>
getstarted == <<"g", "e", "t", "s", "t", "a", "r", "t", "e", "d">>
Buy == <<"B", "u", "y">>
buy == <<"b", "u", "y">>

HeadingInputs == Texts \cup {GetStarted, get_started, getstarted, None}
CtaInputs == Texts \cup {Buy, buy, None}
FallbackInputs == {None, <<>>, <<"D", "1">>, <<"d", "1">>, <<"a", "|", "a">>}

\* compute_variant_key with any heading, CTA text and fallback
InitKey ==
    /\ AnalysisIdle
    /\ ReportIdle
    /\ inputs \in [hero_heading : HeadingInputs, hero_cta_text : CtaInputs,
                    fallback : FallbackInputs]
    /\ output = <<>>
    /\ applied = FALSE

ApplyComputeVariantKey ==
    /\ ~applied
    /\ output' = compute_variant_key(inputs.hero_heading, inputs.hero_cta_text,
                                     inputs.fallback)
    /\ applied' = TRUE
    /\ UNCHANGED <<inputs, analysis_vars, report_vars>>

SpecKey == InitKey /\ [][ApplyComputeVariantKey]_vars

\* n times the character c
Rep(c, n) == [i \in 1 .. n |-> c]

\* a block without attributes and descendants, with the given text
Block(text) ==
    [text |-> text, classes |-> <<>>, id |-> None, media |-> FALSE,
     headings |-> <<>>, ps |-> <<>>, buttons |-> <<>>]

\* a wrapper with next to no text
TinyBlock == Block(<<"x", "x">>)
\* thirty characters of text, nothing else
PlainBlock == Block(Rep("x", 30))
\* more than 200 characters of text, a space at position 200
LongBlock == Block(Rep("x", 199) \o <<" ", "y", " ", "z">>)
\* a hero block: class, image, heading, paragraph, a link and a CTA link
HeroBlock ==
    [text |-> <<"H", "i", " ">> \o Rep("x", 30),
     classes |-> <<"H", "e", "r", "o", "-", "t", "o", "p">>, id |-> None, media |-> TRUE,
     headings |-> <<<<"H", "i">>>>,
     ps |-> <<Rep("s", 20)>>,
     buttons |-> <<[label |-> <<"A", "b", "o", "u", "t">>, href |-> <<"/", "a">>],
                   [label |-> <<" ", "G", "e", "t", " ", " ", "S", "t", "a", "r", "t", "e", "d", " ">>, href |-> <<"/", "g", "o">>]>>]
\* a heading and text
HeadingBlock ==
    [Block(<<"Y", "o", " ">> \o Rep("x", 30)) EXCEPT
        !.headings = <<<<" ", "Y", "o", " ">>>>, !.id = <<"m", "a", "i", "n", "-", "b", "a", "n", "n", "e", "r">>]
\* no heading, a first paragraph of 15 characters
ParagraphBlock ==
    [Block(Rep("p", 15) \o <<" ">> \o Rep("x", 20)) EXCEPT
        !.ps = <<Rep("p", 15)>>]
\* no heading, a first paragraph that is too short to stand in for one
ShortParagraphBlock ==
    [Block(<<"p", "s", " ">> \o Rep("x", 30)) EXCEPT !.ps = <<<<"p", "s">>>>]
\* no heading, a button without href whose label holds a CTA phrase
CtaBlock ==
    [Block(Rep("x", 30) \o <<" ", "S", "I", "G", "N", " ", "U", "P">>) EXCEPT
        !.buttons = <<[label |-> <<"S", "I", "G", "N", " ", "U", "P">>, href |-> None]>>]

SampleBlocks == {TinyBlock, PlainBlock, LongBlock, HeroBlock, HeadingBlock,
                 ParagraphBlock, ShortParagraphBlock, CtaBlock}

\* pages of up to MaxBlocks blocks, pages whose blocks with content come
\* after many wrappers, and pages with a block at the top and one further
\* down
SampleBlockLists ==
    SeqsUpTo(SampleBlocks, MaxBlocks)
        \cup {Rep(TinyBlock, 81) \o <<HeroBlock>>,
              Rep(TinyBlock, 80) \o <<PlainBlock>>,
              Rep(TinyBlock, 15) \o <<HeadingBlock, HeroBlock>>,
              <<CtaBlock>> \o Rep(TinyBlock, 14) \o <<HeroBlock>>,
              <<PlainBlock>> \o Rep(TinyBlock, 8) \o <<HeadingBlock>>}

SampleSections == {<<>>, <<<<" ", "Y", "o">>, <<"Y", "o">>, <<"P", "r", "i", "c", "i", "n", "g">>>>}

SampleHtml == [blocks : SampleBlockLists, sections : SampleSections]

\* the dom_hash column: NULL or a digest
DomHashes == {None, <<"d", "1">>}

\* the feature record of a snapshot, for any markup and dom_hash
InitExtract ==
    /\ AnalysisIdle
    /\ ReportIdle
    /\ inputs \in [html : SampleHtml, dom_hash : DomHashes]
    /\ output = <<>>
    /\ applied = FALSE

ApplyBuildDomFeatures ==
    /\ ~applied
    /\ output' = BuildDomFeatures(1, inputs.html, inputs.dom_hash)
    /\ applied' = TRUE
    /\ UNCHANGED <<inputs, analysis_vars, report_vars>>

SpecExtract == InitExtract /\ [][ApplyBuildDomFeatures]_vars

Hi == <<"H", "i">>
Try == <<"T", "r", "y">>

\* the stored feature record of a snapshot with the given hero texts and
\* dom_hash (ensure_dom_features_for_snapshot, lines 222-255)
FeaturesOf(hero_heading, hero_cta_text, dom_hash) ==
    [hero_heading |-> hero_heading,
     hero_cta_text |-> hero_cta_text,
     main_sections_json |-> <<>>,
     variant_key |-> compute_variant_key(hero_heading, hero_cta_text, dom_hash)]

SampleFeatures ==
    {FeaturesOf(Hi, Buy, None), FeaturesOf(Hi, buy, None),
     FeaturesOf(Hi, Try, None), FeaturesOf(Hi, <<>>, None),
     FeaturesOf(<<>>, <<>>, <<"d", "1">>), FeaturesOf(<<>>, <<>>, None)}

Timestamps == 1 .. 3

\* the rows of a site with their features; the id and the screenshot of a
\* row are its position
WithIds(snaps) ==
    [i \in DOMAIN snaps |->
        [id |-> i, screenshot_drive_id |-> i,
         captured_at |-> snaps[i].captured_at,
         dom_features |-> snaps[i].dom_features]]

\* build_site_variants with any snapshots in any order
InitVariants ==
    /\ AnalysisIdle
    /\ ReportIdle
    /\ \E snaps \in SeqsUpTo([captured_at : Timestamps,
                               dom_features : SampleFeatures], MaxInputs) :
          inputs = WithIds(snaps)
    /\ output = <<>>
    /\ applied = FALSE

\* main, lines 419-433, for the snapshots of one site
ApplyBuildSiteVariants ==
    /\ ~applied
    /\ output' = [variants |-> build_site_variants(inputs),
                  branch |-> SummaryBranch(build_site_variants(inputs))]
    /\ applied' = TRUE
    /\ UNCHANGED <<inputs, analysis_vars, report_vars>>

SpecVariants == InitVariants /\ [][ApplyBuildSiteVariants]_vars

\* pages: a hero with heading and CTA, a block with another CTA and no
\* heading, a page without any block of text
PageA == [blocks |-> <<HeroBlock>>, sections |-> <<>>]
PageB == [blocks |-> <<CtaBlock>>, sections |-> <<>>]
PageC == [blocks |-> <<TinyBlock>>, sections |-> <<>>]
SamplePages == {PageA, PageB, PageC}

\* capture_and_index.compute_dom_hash(html): the digest of the markup
compute_dom_hash(html) ==
    CASE html = PageA -> <<"d", "a">>
      [] html = PageB -> <<"d", "b">>
      [] OTHER -> <<"d", "c">>

\* a row of the snapshots table
Row(id, site, captured_at, html) ==
    [id |-> id, site |-> site, captured_at |-> captured_at, html |-> html,
     dom_hash |-> compute_dom_hash(html),
     screenshot_drive_id |-> id, dom_drive_id |-> id]

\* a store after capture runs 1 .. Len(pages) of site 1, which saw the
\* given pages; with a snapshot of site 1 older than the week, and with a
\* snapshot of site 2, or not
StoreOf(pages, old, second) ==
    [snapshots |->
        {Row(i, 1, i, pages[i]) : i \in DOMAIN pages}
          \cup (IF old THEN {Row(Len(pages) + 1, 1, 0, PageB)} ELSE {})
          \cup (IF second THEN {Row(Len(pages) + 2, 2, 1, PageA)} ELSE {}),
     dom_features |-> {}]

SampleStores ==
    {StoreOf(pages, old, second) :
        pages \in SeqsUpTo(SamplePages, MaxRows) \ {<<>>},
        old \in BOOLEAN, second \in BOOLEAN}

InitReport ==
    /\ AnalysisIdle
    /\ NoCall
    /\ ReportNotRunning
    /\ rstore \in SampleStores
    /\ posted = <<>>
    /\ dom_log = {}
    /\ rbudget = MaxReportFaults
    /\ reports_left = MaxReports

Report == StartReport \/ EnsureRow \/ SummarizeSite \/ PostComment
          \/ UploadStore \/ EndReport

SpecReport == InitReport /\ [][Report]_vars

\* a site with more uncompared pairs than one run's budget
QueueLen == MAX_PAIRS_PER_SITE + 3

\* the snapshots of site 1 after QueueLen capture runs, oldest first
QueueSnaps == get_snapshots_for_site(History(QueueLen), 1)

\* the store after QueueLen capture runs and earlier analysis runs of which
\* one comparison went through: snapshots 5 and 6 of site 1, found unchanged
QueueStore ==
    insert_snapshot_pair(History(QueueLen), 1, QueueSnaps[5].id,
                         QueueSnaps[6].id, 0, 1000, FALSE)

\* the screenshots that cannot be fetched: none; the newest of site 1; the
\* third, fifth and seventh of site 1
UnloadableSets ==
    {{}, {QueueSnaps[QueueLen].id}, {QueueSnaps[k].id : k \in {3, 5, 7}}}

InitQueue ==
    /\ NotRunning
    /\ drive = QueueStore
    /\ clock = QueueLen
    /\ run_no = 0
    /\ budget = QueueFaults
    /\ runs_left = QueueRuns
    /\ unloadable \in UnloadableSets
    /\ NoCall
    /\ ReportNotRunning
    /\ rstore = EmptyStore
    /\ posted = <<>>
    /\ dom_log = {}
    /\ rbudget = 0
    /\ reports_left = 0

SpecQueue == InitQueue /\ [][Analyze]_vars

\* the schedule goes on after the runs counted by runs_left: further runs
\* are started.  run_no, which only labels the rows of a run, starts over,
\* so that the runs can repeat without end in a finite state space.
ScheduleAgain ==
    /\ pc = "idle"
    /\ runs_left = 0
    /\ runs_left' = QueueRuns
    /\ run_no' = 0
    /\ UNCHANGED <<drive, db, db0, pc, clock, now_iso, sites, site_idx, idx,
                   pairs_processed, site_error, site_results, pair_id, boxes,
                   sync_log, pair_log, top_error, exit_code, budget>>
    /\ UNCHANGED <<unloadable, call_vars, report_vars>>

AnalyzeRepeatedly == Analyze \/ ScheduleAgain

\* analysis runs are started again and again, and a started run keeps going
FairSpecQueue ==
    InitQueue /\ [][AnalyzeRepeatedly]_vars /\ WF_vars(AnalyzeRepeatedly)

----------------------------------------------------------------------------
(* Properties *)

HasPair(d, sid1, sid2) == \E p \in d.pairs : p.s1 = sid1 /\ p.s2 = sid2

DiffsOf(d, pid) == {x \in d.diffs : x.snapshot_pair_id = pid}

SiteOf(d, sid) == (CHOOSE s \in d.snapshots : s.id = sid).site

\* the adjacent pairs of every site's capture-ordered history
AdjacentPairs(d) ==
    UNION {LET snaps == get_snapshots_for_site(d, site)
           IN {<<snaps[i].id, snaps[i + 1].id>> : i \in 1..(Len(snaps) - 1)}
           : site \in {s.site : s \in d.snapshots}}

AllCompared(d) == \A pr \in AdjacentPairs(d) : HasPair(d, pr[1], pr[2])

\* a run is under way, or has ended, and it downloaded the store
Downloaded == pc # "idle" /\ top_error \notin {"config", "download"}

UniquePairs(d) ==
    \A p, q \in d.pairs : (p.s1 = q.s1 /\ p.s2 = q.s2) => p = q

FailedEntries == {e \in pair_log : e.failed # ""}

\* C1: the store never holds two SnapshotPair rows for the same
\* (snapshot_id_1, snapshot_id_2), and a run that starts from a store in
\* which every adjacent pair is already compared adds no SnapshotPair row
\* and no SnapshotDiff row, locally or on Drive.
C1_UniquePairsAndIdempotentRerun ==
    /\ UniquePairs(db)
    /\ UniquePairs(drive)
    /\ (Downloaded /\ AllCompared(db0)) =>
          /\ db.pairs = db0.pairs
          /\ db.diffs = db0.diffs
          /\ drive.pairs = db0.pairs
          /\ drive.diffs = db0.diffs

\* a second run has ended over a fully compared history that holds pairs
\* and diff rows
C1_Witness ==
    /\ pc = "exited"
    /\ top_error = "none"
    /\ runs_left = 0
    /\ AllCompared(db0)
    /\ db0.pairs # {}
    /\ db0.diffs # {}
    /\ \E i \in DOMAIN site_results :
          site_results[i].status = "completed (no new pairs)"

\* C2: a SnapshotPair row that existed when a run started is still there
\* with the same fields and the same SnapshotDiff rows at every point of
\* that run, locally and on Drive, and the run never fetches or scores that
\* pair (it has no entry in the run's pair log).
C2_ExistingPairSkipped ==
    Downloaded =>
       \A p \in db0.pairs :
          /\ p \in db.pairs
          /\ p \in drive.pairs
          /\ DiffsOf(db, p.id) = DiffsOf(db0, p.id)
          /\ DiffsOf(drive, p.id) = DiffsOf(db0, p.id)
          /\ ~\E e \in pair_log : e.s1 = p.s1 /\ e.s2 = p.s2

\* a later run has compared new pairs beside an existing changed pair with
\* diff rows
C2_Witness ==
    /\ pc = "exited"
    /\ top_error = "none"
    /\ \E p \in db0.pairs : DiffsOf(db0, p.id) # {}
    /\ pair_log # {}
    /\ db.pairs # db0.pairs

\* C3: after a run, a pair whose handler failed at any step (fetch, scoring,
\* insert, region extraction, persisting a region) has no SnapshotPair row,
\* locally or on Drive, so that the next run attempts it again.
C3_FailedPairHasNoRow ==
    pc = "exited" =>
       \A e \in FailedEntries :
          ~HasPair(db, e.s1, e.s2) /\ ~HasPair(drive, e.s1, e.s2)

\* the pairs of `site` this run has persisted
NewPairs(d, site) ==
    {p \in d.pairs : p.site = site /\ p.compared_at = now_iso}

\* no upload of this run failed and no exception left analyze()
NoRunLevelFault ==
    /\ \A i \in DOMAIN sync_log : sync_log[i].ok
    /\ top_error = "none"

\* C4: when exactly one of the five pairs attempted for a site fails, in an
\* image fetch, that site's result is "completed" with four new
\* SnapshotPair rows and none for the failed pair, and the run ends with
\* exit status 0 having recorded a result for every site and uploaded the
\* four rows.
C4_OneFetchFailureAmongFive ==
    \A i \in DOMAIN site_results :
       LET r == site_results[i]
           fails == {e \in FailedEntries : SiteOf(db, e.s1) = r.site}
       IN (/\ r.pairs = MAX_PAIRS_PER_SITE
           /\ NoRunLevelFault
           /\ Cardinality(fails) = 1
           /\ \A e \in fails : e.failed = "fetch")
          => /\ r.status = "completed"
             /\ Cardinality(NewPairs(db, r.site)) = MAX_PAIRS_PER_SITE - 1
             /\ \A e \in fails : ~HasPair(db, e.s1, e.s2)
             /\ pc = "exited" =>
                  /\ exit_code = 0
                  /\ Len(site_results) = Len(sites)
                  /\ NewPairs(drive, r.site) = NewPairs(db, r.site)

\* the run has ended after one fetch failure in the five-pair site, with
\* the sibling site compared too
C4_Witness ==
    /\ pc = "exited"
    /\ NoRunLevelFault
    /\ Cardinality(FailedEntries) = 1
    /\ \E e \in FailedEntries : e.failed = "fetch" /\ SiteOf(db, e.s1) = 1
    /\ site_results[1].pairs = MAX_PAIRS_PER_SITE
    /\ Cardinality(NewPairs(db, 1)) = MAX_PAIRS_PER_SITE - 1
    /\ NewPairs(db, 2) # {}

\* C5: an exception of a site outside the per-pair handler (listing its
\* snapshots, reading an id, the pair lookup) is recorded as that site's
\* error status and every later site is still processed: a run that got
\* its site list ends with one result per site.
C5_SiteFailureIsolated ==
    (pc = "exited" /\ top_error \notin {"config", "download"}) =>
        Len(site_results) = Len(sites)

\* C6: the analysis entry point ends with exit status 0 whatever failed
\* during the run.
C6_ExitStatusZero ==
    /\ pc = "exited" => exit_code = 0
    /\ pc # "exited" => exit_code \in {-1, 0}

\* a run has ended although a pair failed and an exception left analyze()
C6_Witness ==
    /\ pc = "exited"
    /\ FailedEntries # {}
    /\ top_error = "listing"

\* the sites this run has uploaded the store for, in order
SyncedSites == [i \in DOMAIN sync_log |-> sync_log[i].site]

\* C7: the store is uploaded once after every site of the site list,
\* whatever the site's outcome, before the next site is started.
C7_SyncAfterEverySite ==
    (pc \in {"site", "pairs", "compare", "persist", "finally"}
       \/ (pc = "exited" /\ top_error = "none")) =>
        SyncedSites = SubSeq(sites, 1, site_idx - 1)

\* C8 as claimed: the entry point ends with a failure status exactly when
\* a required identifier is missing.
C8_OnlyConfigErrorIsHardFailure ==
    pc = "exited" => ((exit_code # 0) <=> (top_error = "config"))

\* C8 as amended: a missing identifier ends the run before any site is
\* processed (no site result, no pair attempted, no upload), and the entry
\* point still ends with exit status 0, as it does after every other
\* exception that leaves analyze().
C8_ConfigErrorAbortsWithExitZero ==
    /\ (pc = "exited" /\ top_error = "config") =>
          /\ site_results = <<>>
          /\ pair_log = {}
          /\ sync_log = <<>>
          /\ exit_code = 0
    /\ (pc = "exited" /\ top_error # "none") => exit_code = 0

\* a run over a store with snapshots ended on a missing identifier
C8_Witness ==
    /\ pc = "exited"
    /\ top_error = "config"
    /\ AdjacentPairs(drive) # {}
    /\ ~AllCompared(drive)

DiffsWellFormed(d) ==
    \A x \in d.diffs :
       \E p \in d.pairs : p.id = x.snapshot_pair_id /\ p.changed

\* C9: in the local store and on Drive, every SnapshotDiff row refers to an
\* existing SnapshotPair whose changed flag is set; an unchanged pair has
\* no SnapshotDiff row.
C9_DiffsOnlyOfChangedPairs ==
    /\ DiffsWellFormed(db)
    /\ DiffsWellFormed(drive)

\* Drive holds the diff rows of a changed pair beside an unchanged pair
C9_Witness ==
    /\ \E p \in drive.pairs : p.changed /\ DiffsOf(drive, p.id) # {}
    /\ \E p \in drive.pairs : ~p.changed /\ DiffsOf(drive, p.id) = {}

\* C10: region extraction is skipped exactly when the score is at or above
\* SSIM_THRESHOLD: a pair scored below it (marked changed) has the
\* extraction run, not short-circuited.
C10_ExtractionSkippedExactlyAtThreshold ==
    \A e \in pair_log :
       (e.global_ssim >= 0 /\ e.failed # "detect") =>
          /\ e.global_ssim >= SSIM_THRESHOLD => e.extraction = "skipped"
          /\ e.global_ssim < SSIM_THRESHOLD => e.extraction = "ran"

----------------------------------------------------------------------------
\* C11: for every image size W x H and every candidate bounding box, region
\* extraction never returns a box whose area w*h is below 0.1% of the image
\* area W*H: every returned box satisfies 1000*w*h >= W*H.
C11_NoBoxBelowMinAreaRatio ==
    applied =>
        \A i \in DOMAIN output :
            1000 * output[i].w * output[i].h >= inputs.size.w * inputs.size.h

----------------------------------------------------------------------------
\* the characters that differ from `c` at most in letter case
CaseSet(c) ==
    {d \in {c} \cup {LOWERCASE[i] : i \in DOMAIN LOWERCASE}
                \cup {UPPERCASE[i] : i \in DOMAIN UPPERCASE} :
        LowerChar(d) = LowerChar(c)}

\* the texts that differ from `text` at most in letter case
RECURSIVE CaseVariants(_)
CaseVariants(text) ==
    IF text = None THEN {None}
    ELSE IF text = <<>> THEN {<<>>}
    ELSE {<<d>> \o t : d \in CaseSet(Head(text)), t \in CaseVariants(Tail(text))}

\* C12: compute_variant_key is deterministic, case-insensitive and
\* separator-sensitive: the key of (h, c) equals the key of every pair that
\* differs from it only in letter case, and the key of
\* ("Get Started", "Buy") is that of ("get started", "buy") but differs from
\* that of ("getstarted", "buy").
C12_KeyCaseInsensitiveSeparatorSensitive ==
    applied =>
        /\ (inputs.hero_heading \in Texts \cup {None}
               /\ inputs.hero_cta_text \in Texts \cup {None}) =>
              \A h2 \in CaseVariants(inputs.hero_heading) :
                 \A c2 \in CaseVariants(inputs.hero_cta_text) :
                    compute_variant_key(h2, c2, inputs.fallback) = output
        /\ (inputs.hero_heading = GetStarted /\ inputs.hero_cta_text = Buy) =>
              /\ output = compute_variant_key(get_started, buy, inputs.fallback)
              /\ output # compute_variant_key(getstarted, buy, inputs.fallback)

C12_Witness ==
    /\ applied
    /\ inputs.hero_heading = GetStarted
    /\ inputs.hero_cta_text = Buy
    /\ output = sha256_hexdigest(get_started \o <<"|">> \o buy)

\* C13 as stated: if the hero heading or the CTA text is non-empty the key
\* is the hash of lowercased heading + separator + lowercased CTA and the
\* fallback is ignored; otherwise, if a fallback hash is supplied, the key
\* is the hash of the lower-cased fallback; otherwise the result is the
\* no-key sentinel, and it is the sentinel only when heading and CTA are
\* both empty and no fallback is supplied.
C13_ThreeWaySplit ==
    applied =>
        LET h == OrEmpty(inputs.hero_heading)
            c == OrEmpty(inputs.hero_cta_text)
            f == OrEmpty(inputs.fallback)
        IN  /\ (h # <<>> \/ c # <<>>) =>
                  output = sha256_hexdigest(lower(h) \o <<"|">> \o lower(c))
            /\ (h = <<>> /\ c = <<>> /\ f # <<>>) =>
                  output = sha256_hexdigest(lower(f))
            /\ (h = <<>> /\ c = <<>> /\ f = <<>>) => output = None
            /\ output = None => (h = <<>> /\ c = <<>> /\ f = <<>>)

\* C13 amended: the same three-way split, taken on the texts with their
\* surrounding whitespace removed: heading or CTA non-blank gives the hash
\* of trimmed lowercased heading + "|" + trimmed lowercased CTA whatever the
\* fallback; both blank and a non-empty fallback give the hash of the
\* trimmed lower-cased fallback; both blank and no (or an empty) fallback
\* give the sentinel, and nothing else does.
C13_ThreeWaySplitAfterTrimming ==
    applied =>
        LET h == strip(OrEmpty(inputs.hero_heading))
            c == strip(OrEmpty(inputs.hero_cta_text))
            f == OrEmpty(inputs.fallback)
        IN  /\ (h # <<>> \/ c # <<>>) =>
                  output = sha256_hexdigest(lower(h) \o <<"|">> \o lower(c))
            /\ (h = <<>> /\ c = <<>> /\ f # <<>>) =>
                  output = sha256_hexdigest(lower(strip(f)))
            /\ (h = <<>> /\ c = <<>> /\ f = <<>>) => output = None
            /\ output = None => (h = <<>> /\ c = <<>> /\ f = <<>>)

\* a heading with text, with a fallback that is ignored
C13_Witness ==
    /\ applied
    /\ inputs.hero_heading = <<"A", " ">>
    /\ inputs.hero_cta_text = <<>>
    /\ inputs.fallback = <<"D", "1">>
    /\ output = sha256_hexdigest(<<"a", "|">>)

----------------------------------------------------------------------------
\* no near-top candidate block has a detectable heading or a call-to-action
NoHeadingNoCta(candidates) ==
    \A k \in DOMAIN candidates :
        /\ candidates[k].heading_text = <<>>
        /\ candidates[k].cta_text = <<>>

\* C14: for a snapshot whose markup has no detectable heading and no
\* call-to-action in any near-top candidate block, hero_heading,
\* hero_subheading, hero_cta_text and hero_cta_target of the feature record
\* are empty strings (never None) and, when a fallback digest is supplied,
\* the stored variant key is the key derived from that digest.
C14_NoHeroGivesEmptyFieldsAndFallbackKey ==
    (applied /\ NoHeadingNoCta(Candidates(inputs.html.blocks))) =>
        /\ output.hero_heading = <<>>
        /\ output.hero_subheading = <<>>
        /\ output.hero_cta_text = <<>>
        /\ output.hero_cta_href = <<>>
        /\ inputs.dom_hash # None =>
              output.variant_key = sha256_hexdigest(inputs.dom_hash)

----------------------------------------------------------------------------
\* positions of the input snapshots grouped under the key vk
Members(vk) == {i \in DOMAIN inputs : BucketKey(inputs[i].dom_features) = vk}

\* C15: build_site_variants never drops a snapshot: the snapshots without a
\* variant key land in one shared catch-all bucket, every snapshot is
\* counted in exactly the bucket of its key, and the member counts of the
\* buckets sum to the number of input snapshots.
C15_NoSnapshotDropped ==
    applied =>
        LET variants == output.variants
        IN  /\ \A i \in DOMAIN inputs :
                  \E k \in DOMAIN variants :
                     /\ variants[k].vk = BucketKey(inputs[i].dom_features)
                     /\ inputs[i].dom_features.variant_key = None =>
                           variants[k].vk = NO_VARIANT_KEY
            /\ \A k, l \in DOMAIN variants :
                  variants[k].vk = variants[l].vk => k = l
            /\ \A k \in DOMAIN variants :
                  variants[k].count = Cardinality(Members(variants[k].vk))
            /\ Cardinality(UNION {Members(variants[k].vk) : k \in DOMAIN variants})
                  = Len(inputs)

\* two snapshots without a key and one with a key: two buckets
C15_Witness ==
    /\ applied
    /\ Len(inputs) = 3
    /\ Cardinality({i \in DOMAIN inputs :
                        inputs[i].dom_features.variant_key = None}) = 2
    /\ Len(output.variants) = 2
    /\ \E k \in DOMAIN output.variants :
          output.variants[k].vk = NO_VARIANT_KEY /\ output.variants[k].count = 2

\* C16: for every bucket build_site_variants returns, whatever the order
\* of the input, first_ts is the least and last_ts the greatest capture
\* timestamp of the bucket's members, and the example screenshot is that of
\* a member captured at last_ts.
C16_FirstLastAndExampleOfBucket ==
    applied =>
        \A k \in DOMAIN output.variants :
            LET v == output.variants[k]
                M == Members(v.vk)
            IN  /\ \E i \in M : inputs[i].captured_at = v.first_ts
                /\ \A i \in M : v.first_ts <= inputs[i].captured_at
                /\ \A i \in M : inputs[i].captured_at <= v.last_ts
                /\ \E i \in M :
                      /\ inputs[i].captured_at = v.last_ts
                      /\ inputs[i].screenshot_drive_id = v.example_screenshot_id

\* a bucket fed newest first, then oldest, then the one in between
C16_Witness ==
    /\ applied
    /\ Len(inputs) = 3
    /\ inputs[1].captured_at = 3 /\ inputs[2].captured_at = 1
    /\ inputs[3].captured_at = 2
    /\ Len(output.variants) = 1
    /\ output.variants[1].first_ts = 1
    /\ output.variants[1].last_ts = 3
    /\ output.variants[1].example_screenshot_id = 1

\* the text a key is made of: trimmed and lower-cased
KeyText(text) == lower(strip(OrEmpty(text)))

\* the snapshots i and j show the same hero heading and CTA
SameHero(i, j) ==
    /\ KeyText(inputs[i].dom_features.hero_heading)
          = KeyText(inputs[j].dom_features.hero_heading)
    /\ KeyText(inputs[i].dom_features.hero_cta_text)
          = KeyText(inputs[j].dom_features.hero_cta_text)

\* the snapshot i shows a hero heading or a CTA
HasHero(i) ==
    \/ KeyText(inputs[i].dom_features.hero_heading) # <<>>
    \/ KeyText(inputs[i].dom_features.hero_cta_text) # <<>>

\* C17: three snapshots that share one hero heading and CTA cluster into
\* exactly one variant and the site is reported as stable; when the third
\* snapshot has another CTA there are exactly two variants, in order of
\* first appearance: the first keeps the heading and CTA of the first two
\* snapshots, and the first_ts of the second is the timestamp of the third
\* snapshot.
C17_ThreeSnapshotsOneOrTwoVariants ==
    (applied /\ Len(inputs) = 3 /\ HasHero(1) /\ SameHero(1, 2)) =>
        LET variants == output.variants
        IN  /\ SameHero(2, 3) =>
                  /\ Len(variants) = 1
                  /\ output.branch = "stable"
            /\ (KeyText(inputs[3].dom_features.hero_heading)
                    = KeyText(inputs[1].dom_features.hero_heading)
                 /\ KeyText(inputs[3].dom_features.hero_cta_text)
                    # KeyText(inputs[1].dom_features.hero_cta_text)) =>
                  /\ Len(variants) = 2
                  /\ output.branch = "multiple"
                  /\ variants[1].vk = inputs[1].dom_features.variant_key
                  /\ variants[1].count = 2
                  /\ variants[1].hero_heading = inputs[1].dom_features.hero_heading
                  /\ variants[1].hero_cta_text = inputs[1].dom_features.hero_cta_text
                  /\ variants[2].vk = inputs[3].dom_features.variant_key
                  /\ variants[2].first_ts = inputs[3].captured_at
                  /\ variants[2].hero_cta_text = inputs[3].dom_features.hero_cta_text

\* "Hi"/"Buy" twice, then "Hi"/"Try", captured in this order
C17_Witness ==
    /\ applied
    /\ Len(inputs) = 3
    /\ \A i \in 1 .. 3 : inputs[i].captured_at = i
    /\ inputs[1].dom_features = FeaturesOf(Hi, Buy, None)
    /\ inputs[2].dom_features = FeaturesOf(Hi, Buy, None)
    /\ inputs[3].dom_features = FeaturesOf(Hi, Try, None)
    /\ Len(output.variants) = 2
    /\ output.variants[1].hero_cta_text = Buy
    /\ output.variants[2].first_ts = 3

----------------------------------------------------------------------------
\* C18: across any sequence of report runs over the same record store the
\* DOM features of a snapshot id are computed and upserted at most once,
\* and once a record exists for the id, ensure_dom_features_for_snapshot
\* returns it without fetching markup, extracting or writing again.
C18_DomFeaturesComputedAtMostOnce ==
    /\ \A e1, e2 \in dom_log :
          (e1.id = e2.id /\ e1.upserted /\ e2.upserted) => e1 = e2
    /\ \A e \in dom_log : e.existed => (~e.fetched /\ ~e.upserted)

\* the calls of the summarization made for a site in this run
AiCalls(site) == {j \in DOMAIN ai_log : ai_log[j].site = site}

\* C19: the variant summarization is advisory: for a site with more than
\* one variant, a failed or empty summarization leaves the raw variant text
\* as the site's summary and the run goes on to the remaining sites and to
\* publishing; for a site with exactly one variant the summarization is
\* not called at all.
C19_SummarizationAdvisory ==
    /\ report_error # "ai"
    /\ \A j \in DOMAIN ai_log :
          \E k \in DOMAIN per_site_summaries :
             per_site_summaries[k].site_name = ai_log[j].site
    /\ \A k \in DOMAIN per_site_summaries :
          LET e == per_site_summaries[k]
          IN  /\ Len(e.variants) = 1 =>
                    /\ AiCalls(e.site_name) = {}
                    /\ e.summary_text = StableSummary(e.variants)
              /\ Len(e.variants) > 1 =>
                    /\ Cardinality(AiCalls(e.site_name)) = 1
                    /\ \A j \in AiCalls(e.site_name) :
                          ai_log[j].outcome \in {"error", "empty"} =>
                             e.summary_text =
                                build_raw_variant_text_for_ai(e.variants)
    /\ (rpc = "exited" /\ report_error = "none") =>
          /\ Len(per_site_summaries) = Len(per_site_snapshots)
          /\ posted # <<>>
          /\ posted[Len(posted)] = build_clickup_message(per_site_summaries)

\* the summarization failed for site 1, which has two variants; site 2 was
\* summarized after it and the comment was posted
C19_Witness ==
    /\ rpc = "exited"
    /\ report_exit = 0
    /\ Len(per_site_summaries) = 2
    /\ ai_log = <<[site |-> 1, outcome |-> "error"]>>
    /\ Len(per_site_summaries[1].variants) = 2
    /\ per_site_summaries[1].summary_text.kind = "raw"
    /\ per_site_summaries[2].summary_text.kind = "stable"
    /\ Len(posted) = 1

\* the snapshots whose markup could not be fetched or parsed in this run
FailedSnapshots ==
    {e.id : e \in {x \in dom_log : x.run = reports_left /\ x.failed # ""}}

\* C20: an I/O error or malformed input while fetching or parsing the
\* markup of one snapshot is isolated to it: the snapshot is skipped, no
\* DomFeatures record is written for it, and the remaining snapshots and
\* sites are still processed and reported.
C20_MarkupFailureIsolated ==
    (rpc = "exited" /\ FailedSnapshots # {}
        /\ report_error \notin {"post", "upload"}) =>
        /\ \A id \in FailedSnapshots : ~HasDomFeatures(conn, id)
        /\ \A i \in DOMAIN rows :
              rows[i].id \notin FailedSnapshots =>
                 \E e \in dom_log :
                    e.run = reports_left /\ e.id = rows[i].id /\ e.failed = ""
        /\ report_exit = 0
        /\ posted # <<>>

----------------------------------------------------------------------------
\* every SnapshotPair row of the store `d` joins two snapshots of the row's
\* site, the first captured strictly before the second, with no snapshot of
\* that site captured between them
PairsJoinAdjacent(d) ==
    \A p \in d.pairs :
       \E a, b \in d.snapshots :
          /\ a.id = p.s1 /\ b.id = p.s2
          /\ a.site = p.site /\ b.site = p.site
          /\ a.captured_at < b.captured_at
          /\ ~\E t \in d.snapshots :
                /\ t.site = p.site
                /\ a.captured_at < t.captured_at
                /\ t.captured_at < b.captured_at

\* C21: every persisted SnapshotPair joins two snapshots of the same site
\* that are adjacent in the site's capture-time order, snapshot_id_1 the
\* strictly earlier one, in the local copy and on Drive, after any
\* interleaving of capture runs and analysis runs.  (Snapshots are only
\* appended with a later capture time, so a pair adjacent now was adjacent
\* when it was compared.)
C21_PairsJoinAdjacentSnapshots ==
    /\ PairsJoinAdjacent(db)
    /\ PairsJoinAdjacent(drive)

\* site 1 was compared by one run, captured again, and compared by the next
\* run: both of its adjacent pairs are on Drive
C21_Witness ==
    /\ pc = "idle"
    /\ Cardinality({s \in drive.snapshots : s.site = 1}) = 3
    /\ \E p, q \in drive.pairs :
          /\ p.site = 1 /\ q.site = 1
          /\ p.compared_at = 1 /\ q.compared_at = 2
          /\ p.s2 = q.s1

----------------------------------------------------------------------------
\* the run is inside the pair loop of a site, or in that site's finally
InSite == pc \in {"pairs", "compare", "persist", "finally"}

\* the snapshots of the site the run is at, oldest first
SiteSnaps == get_snapshots_for_site(db0, sites[site_idx])

\* the pair indices of the site with snapshots `snaps` that had no
\* SnapshotPair row when the run downloaded the store
UnprocessedOf(snaps) ==
    {i \in 1..(Len(snaps) - 1) :
        ~\E p \in db0.pairs : p.s1 = snaps[i].id /\ p.s2 = snaps[i + 1].id}

\* the pair indices of that site this run attempted: those it logged, and
\* the one it is comparing
AttemptedOf(snaps) ==
    {i \in 1..(Len(snaps) - 1) :
        \/ \E e \in pair_log : e.s1 = snaps[i].id /\ e.s2 = snaps[i + 1].id
        \/ pc = "compare" /\ i = idx}

Unprocessed == UnprocessedOf(SiteSnaps)

Attempted == AttemptedOf(SiteSnaps)

\* the n most recent of the pair indices S
MostRecent(S, n) == {i \in S : Cardinality({j \in S : j > i}) < n}

\* the attempted pairs are the most recent unprocessed ones, as many as the
\* budget counter says, and the whole budget's worth when the loop is over
MostRecentFirst(unprocessed, attempted) ==
    /\ Cardinality(attempted) = pairs_processed
    /\ attempted = MostRecent(unprocessed, pairs_processed)
    /\ (pc = "finally" /\ site_error = "") =>
          attempted = MostRecent(unprocessed, MAX_PAIRS_PER_SITE)

\* C22: within one run and one site the attempted pairs are, at every
\* moment, the most recent not-yet-compared pairs, as many as the budget
\* counter says (so they are attempted most-recent-first and an existing
\* pair consumes no budget), never more than MAX_PAIRS_PER_SITE; and when
\* the pair loop ends without a site error, the attempted pairs are the
\* MAX_PAIRS_PER_SITE most recent unprocessed ones if more than that many
\* were unprocessed, all of them otherwise.
C22_MostRecentFirstWithinBudget ==
    InSite =>
        /\ pairs_processed <= MAX_PAIRS_PER_SITE
        /\ \E snaps \in {SiteSnaps} :
              MostRecentFirst(UnprocessedOf(snaps), AttemptedOf(snaps))

\* site 1 had six unprocessed pairs around an existing one (pair 5); the
\* run attempted pairs 7, 6, 4, 3, 2 and left pair 1 for the next run
C22_Witness ==
    /\ pc = "finally"
    /\ sites[site_idx] = 1
    /\ site_error = ""
    /\ Cardinality(Unprocessed) = MAX_PAIRS_PER_SITE + 1
    /\ Attempted = {2, 3, 4, 6, 7}
    /\ pairs_processed = MAX_PAIRS_PER_SITE

----------------------------------------------------------------------------
\* the adjacent pairs of the store `d` whose two screenshots can be fetched
LoadablePairs(d) == {pr \in AdjacentPairs(d) : ~Unloadable(pr[1], pr[2])}

\* the store on Drive holds a SnapshotPair row for every such pair
AllLoadableCompared ==
    \A pr \in LoadablePairs(drive) : HasPair(drive, pr[1], pr[2])

\* C23: with a fixed snapshot history, repeated analysis runs eventually
\* persist a SnapshotPair for every adjacent pair whose images can be
\* loaded, even when other pairs of the same site fail on every run.
C23_EveryLoadablePairEventuallyCompared == <>AllLoadableCompared

----------------------------------------------------------------------------
\* the additive score of the candidate c: position, heading,
\* call-to-action, hero class or id, media
AdditiveScore(c) ==
    (IF 5 - (c.idx \div 3) > 0 THEN 5 - (c.idx \div 3) ELSE 0)
    + (IF c.heading_text # <<>> THEN 2 ELSE 0)
    + (IF c.cta_text # <<>> THEN 3 ELSE 0)
    + (IF HasHeroClass(c.element) THEN 1 ELSE 0)
    + (IF c.element.media THEN 1 ELSE 0)

\* the candidates are the blocks among the first 81 with at least 30
\* characters of text, in document order, each with its additive score
CandidatesAsClaimed(blocks, candidates) ==
    /\ \A i \in DOMAIN blocks :
          (i - 1 <= 80 /\ Len(normalize_space(blocks[i].text)) >= 30)
             <=> \E k \in DOMAIN candidates : candidates[k].idx = i - 1
    /\ \A k \in DOMAIN candidates :
          /\ candidates[k].element = blocks[candidates[k].idx + 1]
          /\ candidates[k].hero_score = AdditiveScore(candidates[k])
          /\ \A j \in 1 .. (k - 1) : candidates[j].idx < candidates[k].idx

\* the hero texts of `feats` are those of a candidate with the highest
\* score that no earlier candidate reaches
HeroIsFirstMaximum(candidates, feats) ==
    \E k \in DOMAIN candidates :
       /\ \A j \in DOMAIN candidates :
             candidates[j].hero_score <= candidates[k].hero_score
       /\ \A j \in 1 .. (k - 1) :
             candidates[j].hero_score < candidates[k].hero_score
       /\ feats.hero_heading = HeroHeading(candidates[k])
       /\ feats.hero_cta_text = candidates[k].cta_text
       /\ feats.hero_cta_href = candidates[k].cta_href

\* C24: the hero block chosen by the extractor is a candidate with the
\* maximum additive score among the candidates (blocks among the first 81
\* with at least 30 characters of text), and when several candidates tie on
\* the maximum, the first of them in document order.
C24_HeroIsFirstMaximumCandidate ==
    applied =>
        \E candidates \in {Candidates(inputs.html.blocks)} :
           /\ CandidatesAsClaimed(inputs.html.blocks, candidates)
           /\ candidates # <<>> => HeroIsFirstMaximum(candidates, output)

\* a heading block and, after it, a call-to-action block of the same
\* score: the heading block is the hero
C24_Witness ==
    /\ applied
    /\ inputs.html.blocks = <<HeadingBlock, CtaBlock>>
    /\ output.hero_heading = <<"Y", "o">>
    /\ output.hero_cta_text = <<>>

----------------------------------------------------------------------------
\* a text as the key takes it: None as empty, trimmed, lower-cased
Normalised(text) == lower(strip(OrEmpty(text)))

\* the characters of a hexadecimal digest, in either case
HexDigits == {"0", "1", "2", "3", "4", "5", "6", "7", "8", "9",
              "a", "b", "c", "d", "e", "f", "A", "B", "C", "D", "E", "F"}

\* the fallbacks that are digests
DigestFallbacks ==
    {f \in FallbackInputs \ {None, <<>>} :
        \A i \in DOMAIN f : f[i] \in HexDigits}

\* C25: the variant key separates variants: a (hero heading, CTA text) pair
\* that differs from the given one after trimming and lower-casing gets a
\* different key, also when a heading or CTA text holds the separator '|',
\* and a key built from heading and CTA text is never the key built from a
\* fallback digest.
C25_KeySeparatesVariants ==
    (applied /\ (Normalised(inputs.hero_heading) # <<>>
                    \/ Normalised(inputs.hero_cta_text) # <<>>)) =>
        /\ \A h2 \in HeadingInputs, c2 \in CtaInputs :
              (/\ Normalised(h2) # <<>> \/ Normalised(c2) # <<>>
               /\ \/ Normalised(h2) # Normalised(inputs.hero_heading)
                  \/ Normalised(c2) # Normalised(inputs.hero_cta_text))
                 => compute_variant_key(h2, c2, inputs.fallback) # output
        /\ \A f \in DigestFallbacks :
              compute_variant_key(None, None, f) # output

====
